---- MODULE Spec2Model ----
(***************************************************************************)
(* Region consolidation in duvet.                                          *)
(*                                                                         *)
(*   - citation/rangemap.rs: RangeMap, the in-memory sweep.  A BTreeMap    *)
(*     from (offset, id) to a polarity flag, and an iterator that turns    *)
(*     the stored events into (range, ids) entries with a refcount stack.  *)
(*   - marker.rs: Markers, the persistent store.  A sled tree with an      *)
(*     appending merge operator, written by concurrent mark calls, and     *)
(*     for_each, which sweeps one file's records with a Finisher.          *)
(*   - region.rs: Regions, the store with its two indexes.  insert merges  *)
(*     boundary records per (file, instance, offset); finish_file sweeps   *)
(*     one file's records into the regions and entity_regions trees.       *)
(*   - report.rs: AnnotationSet, one file's records keyed by offset, and   *)
(*     finish, which writes one region record per key.                     *)
(***************************************************************************)
EXTENDS Integers, Sequences, FiniteSets, Bags, TLC

\* ------------------------------------------------------------------ bounds

\* Offsets of the RangeMap model are 0 .. MaxOffset.
MaxOffset == 4
\* The number of valid RangeMap::insert calls explored.
MaxMarks == 3
\* The number of reference regions the entities have between them.
CvMaxRegions == 2
\* The threads that call into one Intern.
InMaxThreads == 2
\* The number of Intern::intern calls explored.
InMaxCalls == 3
\* The number of valid RangeMap::insert calls before a map is swept twice.
MaxSweepMarks == 2
\* The number of Markers::mark calls explored.
MkMaxCalls == 2
\* Offsets of the Regions model are 0 .. RgMaxOffset.
RgMaxOffset == 2
\* The number of Regions::insert calls explored.
RgMaxCalls == 2
\* The number of AnnotationSet::insert calls explored.
AnMaxCalls == 3

Offsets == 0 .. MaxOffset
\* Label ids (u8 in rangemap.rs' tests, which use 0 and 1).
Ids == {0, 1}
\* Offsets of the Markers model: four, so that two ranges can overlap, abut,
\* nest or leave a gap, and three entries can follow one another.
MkOffsets == {0, 1, 2, 3}
\* Entity ids (marker.rs' test uses EntityId::new(1) and EntityId::new(2)).
MkIds == {1, 2}
RgOffsets == 0 .. RgMaxOffset
\* Entity ids and files of the Regions model.
RgIds == {1, 2}
RgFiles == {1, 2}
\* Offsets of the AnnotationSet model: the range bounds of report.rs' overlap
\* test, (1, 0..2), (2, 2..4), (3, 0..5).
AnOffsets == {0, 2, 4, 5}
\* The entities of the coverage model and the lists of entities of a region.
CvEntities == {1, 2, 3}
\* The entities that are given the subject attribute.
CvSubjectIds == {1, 2}
CvLists == {<<>>, <<1>>, <<2>>, <<3>>, <<1, 2>>, <<1, 3>>, <<2, 3>>, <<1, 2, 3>>}
InThreads == 1 .. InMaxThreads
\* The values interned (intern.rs' test uses "value" and "other").
InValues == {"value", "other"}
\* Annotation ids (report.rs' overlap test uses 1, 2 and 3).
AnIds == {1, 2, 3}

VARIABLES
    debug_assertions, \* cfg!(debug_assertions): TRUE in a debug build
    rm,               \* RangeMap.0: the BTreeMap (offset, id) -> bool
    rmMarks,          \* the multiset of valid marks passed to RangeMap::insert
    rmPc,             \* "idle" | "iterating" | "finished" | "panicked"
    iter,             \* Iter: pos (events consumed from the BTreeMap) and stack
    rmOut,            \* the entries the current Iter has yielded
    rmAssert,         \* which "invalid stack state" arm the sweep has reached
    rmFirst,          \* the events the Iter borrowed at RangeMap::iter and,
                      \* once it was dropped for a fresh one (taken), the
                      \* entries it had yielded and whether it had ended
    markers,          \* Markers.markers: the sled tree offset -> Vec<Marker>
    mkPending,        \* mark calls between their first and second merge
    mkDone,           \* mark calls that have returned
    forEach,          \* the for_each call that has just returned: its file and
                      \* the entries it passed to on_entry (called is FALSE
                      \* when the last operation was not a for_each)
    rgMarkers,        \* Regions.markers: (file, instance, offset) -> Vec<Marker>
    rgRegions,        \* Regions.regions: (file, instance, offset) -> ids
    rgEntityRegions,  \* Regions.entity_regions: (id, file, instance, offset) -> ids
    rgPending,        \* Regions::insert calls between their two merges
    rgDone,           \* Regions::insert calls that have returned
    fin,              \* per file, the finish_file call in progress or returned
    annotations,      \* AnnotationSet.annotations: offset key -> Vec<AnnotationEntry>
    anOut,            \* the tree AnnotationSet::finish writes to
    anPc,             \* "open" | "finished" (finish consumes the set)
    anCalls,          \* how many insert calls had a valid and an empty range
    value_to_id,      \* Intern.value_to_id: DashMap value -> Id
    id_to_value,      \* Intern.id_to_value: DashMap Id -> value
    next_id,          \* Intern.id: the AtomicU32
    inThreads,        \* per thread, its position in Intern::intern, the key
                      \* and the id it holds
    inCalls,          \* how many intern calls have been made
    inReturned,       \* the <<value, id>> of the intern calls that returned
    inResolved,       \* the <<id, outcome>> of the resolve calls made
    cvSubjects,       \* the entities that carry the subject attribute
    cvTargets,        \* the entities that carry the target attribute
    cvRegions,        \* per entity, the regions db.regions().references(entity)
                      \* yields, each the list of its entities
    cvNotify,         \* the coverage::notify call that has returned: the
                      \* handler's invocations and the Result
    emptyCall         \* the last operation was an insert or mark with
                      \* start >= end, which returned Ok at once

vars == <<debug_assertions, rm, rmMarks, rmPc, iter, rmOut, rmAssert, rmFirst,
          markers, mkPending, mkDone, forEach,
          rgMarkers, rgRegions, rgEntityRegions, rgPending, rgDone, fin,
          annotations, anOut, anPc, anCalls,
          value_to_id, id_to_value, next_id, inThreads, inCalls, inReturned,
          inResolved, cvSubjects, cvTargets, cvRegions, cvNotify, emptyCall>>
rmVars == <<debug_assertions, rm, rmMarks, rmPc, iter, rmOut, rmAssert,
            rmFirst>>
mkVars == <<markers, mkPending, mkDone, forEach>>
rgVars == <<rgMarkers, rgRegions, rgEntityRegions, rgPending, rgDone, fin>>
anVars == <<annotations, anOut, anPc, anCalls>>
inVars == <<value_to_id, id_to_value, next_id, inThreads, inCalls, inReturned,
            inResolved>>
\* The structures outside citation/ and the stores.
cvVars == <<cvSubjects, cvTargets, cvRegions, cvNotify>>
coreVars == <<inVars, cvVars>>

\* ------------------------------------------------------------------ helpers

\* BTreeMap / HashMap as a function whose DOMAIN is the key set.
EmptyMap == [k \in {} |-> 0]
Put(f, k, v) == [x \in (DOMAIN f) \cup {k} |-> IF x = k THEN v ELSE f[x]]
Remove(f, k) == [x \in (DOMAIN f) \ {k} |-> f[x]]

Max(a, b) == IF a >= b THEN a ELSE b

\* The ascending sequence of a finite set of integers (BTreeMap key order).
RECURSIVE SortedSeq(_)
SortedSeq(S) ==
    IF S = {} THEN <<>>
    ELSE LET m == CHOOSE x \in S : \A y \in S : x <= y
         IN <<m>> \o SortedSeq(S \ {m})

\* (Offset, Id) tuple order of the BTreeMap keys.
KeyLeq(a, b) == a[1] < b[1] \/ (a[1] = b[1] /\ a[2] <= b[2])

RECURSIVE SortedKeys(_)
SortedKeys(S) ==
    IF S = {} THEN <<>>
    ELSE LET m == CHOOSE x \in S : \A y \in S : KeyLeq(x, y)
         IN <<m>> \o SortedKeys(S \ {m})

\* ------------------------------------------------------------ RangeMap

\* insert_point gone wrong: an occupied key takes the new value instead of
\* being removed when the values differ.
insert_point_Overwrite(map, offset, id, value) ==
    Put(map, <<offset, id>>, value)

\* insert_point gone wrong: an occupied key keeps its first value.
insert_point_KeepFirst(map, offset, id, value) ==
    LET key == <<offset, id>>
    IN IF key \in DOMAIN map THEN map ELSE Put(map, key, value)

\* RangeMap::insert_point: a vacant key takes the value; an occupied key with
\* the other value is removed; an occupied key with the same value stays.
insert_point(map, offset, id, value) ==
    LET key == <<offset, id>>
    IN IF key \in DOMAIN map
       THEN IF map[key] # value THEN Remove(map, key) ELSE map
       ELSE Put(map, key, value)

\* RangeMap::insert gone wrong: the empty-range check is missing.
RangeMap_insert_NoCheck(map, start, end, id) ==
    insert_point(insert_point(map, start, id, TRUE), end, id, FALSE)

\* RangeMap::insert: an empty range is dropped, otherwise an opening point at
\* range.start and a closing point at range.end.
RangeMap_insert(map, start, end, id) ==
    IF start >= end THEN map
    ELSE insert_point(insert_point(map, start, id, TRUE), end, id, FALSE)

\* self.0.iter(): the stored events <<offset, id, enabled>> in key order.
Events(map) ==
    LET ks == SortedKeys(DOMAIN map)
    IN [i \in 1 .. Len(ks) |-> <<ks[i][1], ks[i][2], map[ks[i]]>>]

\* Stack::insert gone wrong: a closing event that brings the count to zero
\* leaves the label in the stack.
Stack_insert_NoRemove(stack, id, enabled) ==
    IF enabled
    THEN IF id \in DOMAIN stack
         THEN [stack |-> [stack EXCEPT ![id] = @ + 1], ret |-> FALSE, hit |-> FALSE]
         ELSE [stack |-> Put(stack, id, 1), ret |-> TRUE, hit |-> FALSE]
    ELSE IF id \in DOMAIN stack
         THEN [stack |-> [stack EXCEPT ![id] = @ - 1], ret |-> stack[id] = 1,
               hit |-> FALSE]
         ELSE [stack |-> stack, ret |-> FALSE, hit |-> TRUE]

\* Stack::insert.  ret is the returned bool; hit says the Vacant arm of a
\* closing event (debug_assert!(false, "invalid stack state")) was reached.
Stack_insert(stack, id, enabled) ==
    IF enabled
    THEN IF id \in DOMAIN stack
         THEN [stack |-> [stack EXCEPT ![id] = @ + 1], ret |-> FALSE, hit |-> FALSE]
         ELSE [stack |-> Put(stack, id, 1), ret |-> TRUE, hit |-> FALSE]
    ELSE IF id \in DOMAIN stack
         THEN IF stack[id] - 1 = 0
              THEN [stack |-> Remove(stack, id), ret |-> TRUE, hit |-> FALSE]
              ELSE [stack |-> [stack EXCEPT ![id] = @ - 1], ret |-> FALSE, hit |-> FALSE]
         ELSE [stack |-> stack, ret |-> FALSE, hit |-> TRUE]

\* Stack::maybe_insert gone wrong: it applies every peeked event, as
\* Stack::insert does, and lets the look-ahead go on.
Stack_maybe_insert_Always(stack, id, enabled) ==
    [Stack_insert(stack, id, enabled) EXCEPT !.ret = TRUE]

\* Stack::maybe_insert gone wrong: it never applies the peeked event.
Stack_maybe_insert_Never(stack, id, enabled) ==
    [stack |-> stack, ret |-> FALSE, hit |-> FALSE]

\* Stack::maybe_insert: applies the event only when the key set stays as it is.
Stack_maybe_insert(stack, id, enabled) ==
    IF enabled
    THEN IF id \in DOMAIN stack
         THEN [stack |-> [stack EXCEPT ![id] = @ + 1], ret |-> TRUE, hit |-> FALSE]
         ELSE [stack |-> stack, ret |-> FALSE, hit |-> FALSE]
    ELSE IF id \in DOMAIN stack
         THEN IF stack[id] = 1
              THEN [stack |-> stack, ret |-> FALSE, hit |-> FALSE]
              ELSE [stack |-> [stack EXCEPT ![id] = @ - 1], ret |-> TRUE, hit |-> FALSE]
         ELSE [stack |-> stack, ret |-> TRUE, hit |-> TRUE]

\* Stack::ids collected into a Vec: the keys in ascending order.
Stack_ids(stack) == SortedSeq(DOMAIN stack)

\* The while loop of Iter::next (lines 86-105): next_if on the peeked event.
\* The closure sets `end` to the peeked offset before it decides; an event at
\* the segment's own offset is applied with Stack::insert, any other with
\* Stack::maybe_insert, whose result decides whether the event is consumed.
\* A debug build panics in the Vacant arm; a release build goes on.
RECURSIVE Lookahead(_, _, _, _, _, _, _)
Lookahead(ev, pos, stack, offset, end, as, dbg) ==
    IF pos >= Len(ev)
    THEN [pos |-> pos, stack |-> stack, end |-> end, as |-> as, panic |-> FALSE]
    ELSE LET e == ev[pos + 1]
             r == IF e[1] = offset
                  THEN Stack_insert(stack, e[2], e[3])
                  ELSE Stack_maybe_insert(stack, e[2], e[3])
             take == (e[1] = offset) \/ r.ret
             as2 == IF r.hit
                    THEN (IF e[1] = offset THEN "insert" ELSE "maybe_insert")
                    ELSE as
         IN IF r.hit /\ dbg
            THEN [pos |-> pos, stack |-> r.stack, end |-> e[1], as |-> as2,
                  panic |-> TRUE]
            ELSE IF take
            THEN Lookahead(ev, pos + 1, r.stack, offset, e[1], as2, dbg)
            ELSE [pos |-> pos, stack |-> r.stack, end |-> e[1], as |-> as2,
                  panic |-> FALSE]

\* Iter::next (lines 69-117).  status is "some" (an item is returned), "none"
\* (the iterator is exhausted) or "panic" (a debug assertion failed).
RECURSIVE Iter_next(_, _, _, _, _)
Iter_next(ev, pos, stack, as, dbg) ==
    IF pos >= Len(ev)
    THEN \* peek() is None: the debug build checks the stack, then next()? returns
         IF DOMAIN stack # {}
         THEN [pos |-> pos, stack |-> stack, as |-> "end",
               status |-> IF dbg THEN "panic" ELSE "none", item |-> <<>>]
         ELSE [pos |-> pos, stack |-> stack, as |-> as, status |-> "none",
               item |-> <<>>]
    ELSE LET e == ev[pos + 1]
             offset == e[1]
             r == Stack_insert(stack, e[2], e[3])
             as1 == IF r.hit THEN "insert" ELSE as
         IN IF r.hit /\ dbg
            THEN [pos |-> pos + 1, stack |-> r.stack, as |-> as1,
                  status |-> "panic", item |-> <<>>]
            ELSE LET la == Lookahead(ev, pos + 1, r.stack, offset, offset, as1, dbg)
                 IN IF la.panic
                    THEN [pos |-> la.pos, stack |-> la.stack, as |-> la.as,
                          status |-> "panic", item |-> <<>>]
                    ELSE IF DOMAIN la.stack = {}
                    THEN Iter_next(ev, la.pos, la.stack, la.as, dbg)
                    ELSE [pos |-> la.pos, stack |-> la.stack, as |-> la.as,
                          status |-> "some",
                          item |-> [start |-> offset, end |-> la.end,
                                    ids |-> Stack_ids(la.stack)]]

\* map.iter().collect() as in rangemap.rs' tests: every item until None, or
\* until a debug assertion panics.
RECURSIVE Collect(_, _, _, _, _)
Collect(ev, pos, stack, out, dbg) ==
    LET r == Iter_next(ev, pos, stack, "none", dbg)
    IN IF r.status = "some"
       THEN Collect(ev, r.pos, r.stack, Append(out, r.item), dbg)
       ELSE [out |-> out, status |-> r.status]

RangeMap_collect(map, dbg) == Collect(Events(map), 0, EmptyMap, <<>>, dbg)

Marks == {<<s, e, id>> : s \in Offsets, e \in Offsets, id \in Ids}
ValidMark(m) == m[1] < m[2]

NewIter == [pos |-> 0, stack |-> EmptyMap]

\* ------------------------------------------------------------ Markers

\* zerocopy U32<BigEndian>: new(n).as_bytes() and get().
U32_BE(n) ==
    <<(n \div 16777216) % 256, (n \div 65536) % 256, (n \div 256) % 256, n % 256>>
U32_get(b) == b[1] * 16777216 + b[2] * 65536 + b[3] * 256 + b[4]

\* Marker { id, end }.as_bytes(): the 8-byte boundary record.
Marker_as_bytes(id, end) == U32_BE(id) \o U32_BE(end)

\* LayoutVerified<_, [Marker]>::new_slice_unaligned(value): the 8-byte chunks
\* of a stored value, each read back as a Marker.
ParseMarkers(value) ==
    [i \in 1 .. (Len(value) \div 8) |->
        [id |-> U32_get(SubSeq(value, 8 * i - 7, 8 * i - 4)),
         end |-> U32_get(SubSeq(value, 8 * i - 3, 8 * i))]]

\* Entry::ids: the 4-byte chunks of an entry's buffer, as numbers.
Entry_ids(buf) ==
    [i \in 1 .. (Len(buf) \div 4) |-> U32_get(SubSeq(buf, 4 * i - 3, 4 * i))]

\* (file, offset).join() and key.keys().  A key is kept as the tuple; sled
\* orders keys by their bytes, which for big-endian fields is the tuple order.
join(file, offset) == <<file, offset>>

\* merge_entry gone wrong: the merged bytes overwrite the old value.
Markers_merge_entry_Overwrite(old_value, merged_bytes) == merged_bytes

\* Markers::merge_entry: the old value (empty when None) followed by the
\* merged bytes.
Markers_merge_entry(old_value, merged_bytes) == old_value \o merged_bytes

\* Tree::merge(key, bytes) with merge_entry as the merge operator; atomic per
\* key.
Tree_merge(tree, key, bytes) ==
    Put(tree, key,
        Markers_merge_entry(IF key \in DOMAIN tree THEN tree[key] ELSE <<>>, bytes))

\* flush gone wrong: the buffer is left in the HashMap's order.
SortIdBytes_Unsorted(buf) == buf

\* The .sort() of the EntityId slice in Finisher::flush: ascending by value.
RECURSIVE SortIdBytes(_)
SortIdBytes(buf) ==
    IF buf = <<>> THEN <<>>
    ELSE LET ids == Entry_ids(buf)
             i == CHOOSE k \in 1 .. Len(ids) : \A j \in 1 .. Len(ids) : ids[k] <= ids[j]
         IN SubSeq(buf, 4 * i - 3, 4 * i)
            \o SortIdBytes(SubSeq(buf, 1, 4 * i - 4) \o SubSeq(buf, 4 * i + 1, Len(buf)))

\* Finisher::new.  on_entry stands for the callback: the Result it returns at
\* its next invocation.
Finisher_new(file, on_entry) ==
    [file |-> file, on_entry |-> on_entry, current |-> EmptyMap,
     value_buf |-> <<>>, prev_offset |-> 0, out |-> <<>>, result |-> "Ok"]

\* flush gone wrong: prev_offset is never moved, every entry starts at 0.
Finisher_flush_KeepPrev(f, offset) ==
    IF f.value_buf = <<>>
    THEN f
    ELSE [f EXCEPT !.value_buf = <<>>,
                   !.out = Append(@, [buf |-> SortIdBytes(f.value_buf),
                                      start |-> f.prev_offset,
                                      end |-> offset,
                                      file |-> f.file,
                                      ret |-> f.on_entry])]

\* flush gone wrong: the callback's error is dropped and the sweep goes on.
Finisher_flush_IgnoresErr(f, offset) ==
    IF f.value_buf = <<>>
    THEN [f EXCEPT !.prev_offset = offset]
    ELSE [f EXCEPT !.prev_offset = offset,
                   !.value_buf = <<>>,
                   !.out = Append(@, [buf |-> SortIdBytes(f.value_buf),
                                      start |-> f.prev_offset,
                                      end |-> offset,
                                      file |-> f.file,
                                      ret |-> f.on_entry])]

\* Finisher::flush: nothing for an empty buffer; otherwise the sorted buffer
\* goes to the callback as the entry prev_offset..offset.  out collects the
\* callback's invocations, each with the Result the callback returned (ret).
\* When the callback returns Err, `?` returns it at once, before
\* value_buf.clear().
Finisher_flush(f, offset) ==
    IF f.value_buf = <<>>
    THEN [f EXCEPT !.prev_offset = offset]
    ELSE LET called == [f EXCEPT !.prev_offset = offset,
                                 !.value_buf = SortIdBytes(f.value_buf),
                                 !.out = Append(@, [buf |-> SortIdBytes(f.value_buf),
                                                    start |-> f.prev_offset,
                                                    end |-> offset,
                                                    file |-> f.file,
                                                    ret |-> f.on_entry])]
         IN IF f.on_entry # "Ok"
            THEN [called EXCEPT !.result = f.on_entry]
            ELSE [called EXCEPT !.value_buf = <<>>]

\* on_markers gone wrong: a record overwrites its entity's end instead of
\* raising it to the maximum.
RECURSIVE ApplyMarkers_LastWins(_, _)
ApplyMarkers_LastWins(current, ms) ==
    IF ms = <<>> THEN current
    ELSE ApplyMarkers_LastWins(Put(current, Head(ms).id, Head(ms).end), Tail(ms))

\* The for loop of Finisher::on_markers: each record sets its entity's end, or
\* raises it to the maximum when the entity is already current.
RECURSIVE ApplyMarkers(_, _)
ApplyMarkers(current, ms) ==
    IF ms = <<>> THEN current
    ELSE LET m == Head(ms)
         IN ApplyMarkers(
                IF m.id \in DOMAIN current
                THEN [current EXCEPT ![m.id] = Max(@, m.end)]
                ELSE Put(current, m.id, m.end),
                Tail(ms))

\* Every order in which a HashMap holding the keys S can visit them: the order
\* follows the keys' hashes under the map's RandomState and the table's
\* history, so each visit may take any arrangement of S.
HashOrders(S) ==
    {s \in [1 .. Cardinality(S) -> S] :
        \A i, j \in 1 .. Cardinality(S) : i # j => s[i] # s[j]}

\* The keys S of a HashMap as one visit yields them, when order is the
\* arrangement that visit takes of the ids there are.
HashOrder(S, order) == SelectSeq(order, LAMBDA x : x \in S)

RECURSIVE ConcatIds(_)
ConcatIds(ids) == IF ids = <<>> THEN <<>> ELSE U32_BE(Head(ids)) \o ConcatIds(Tail(ids))

\* on_markers gone wrong: an entity that ends at offset is retained.
Finisher_on_markers_KeepEnded(f, offset, ms, order) ==
    LET f1 == Finisher_flush(f, offset)
        cur == ApplyMarkers(f1.current, ms)
        keep == {id \in DOMAIN cur : cur[id] >= offset}
    IN [f1 EXCEPT !.current = [id \in keep |-> cur[id]],
                  !.value_buf = @ \o ConcatIds(HashOrder(keep, order))]

\* Finisher::on_markers: flush up to offset, merge the records at offset into
\* current, then retain the entities that end after offset, writing each
\* retained id to value_buf in the order the HashMap visits them.
Finisher_on_markers(f, offset, ms, order) ==
    LET f1 == Finisher_flush(f, offset)
        cur == ApplyMarkers(f1.current, ms)
        keep == {id \in DOMAIN cur : cur[id] > offset}
    IN IF f1.result # "Ok" THEN f1
       ELSE [f1 EXCEPT !.current = [id \in keep |-> cur[id]],
                       !.value_buf = @ \o ConcatIds(HashOrder(keep, order))]

\* No offset read yet.
NoOffset == -1

\* The range iterator's next() in Markers::for_each: the least offset of the
\* file's keys after the last one read (the iterator reads the live tree), or
\* NoOffset at the end of the range.
Markers_range_next(tree, file, last) ==
    LET rest == {k[2] : k \in {x \in DOMAIN tree : x[1] = file /\ x[2] > last}}
    IN IF rest = {} THEN NoOffset
       ELSE CHOOSE x \in rest : \A y \in rest : x <= y

\* The for loop of Markers::for_each from the key after last on, over a tree
\* nobody writes to meanwhile and with a callback that never fails: every
\* Finisher it can end with, one per choice of the HashMap's orders (ids are
\* the ids there are).  end_offset is the offset of the last key read.
RECURSIVE ForEachLoop(_, _, _, _, _, _)
ForEachLoop(tree, file, last, end_offset, f, ids) ==
    LET offset == Markers_range_next(tree, file, last)
        nexts == {Finisher_on_markers(f, offset,
                      ParseMarkers(tree[join(file, offset)]), order) :
                  order \in HashOrders(ids)}
    IN IF offset = NoOffset THEN {[f |-> f, end_offset |-> end_offset]}
       ELSE UNION {ForEachLoop(tree, file, offset, offset, g, ids) : g \in nexts}

\* Markers::for_each(file, on_entry) over a tree nobody writes to meanwhile,
\* with a callback that never fails: the entries passed to on_entry, for
\* every choice of the HashMap's orders.  The last flush is at end_offset (0
\* when the file has no key).
Markers_for_each(tree, file, ids) ==
    {Finisher_flush(r.f, r.end_offset).out :
        r \in ForEachLoop(tree, file, NoOffset, 0, Finisher_new(file, "Ok"), ids)}

\* ------------------------------------------------------------ Regions

\* InstanceId::default(), taken when the instance argument is None.
DefaultInstance == 0

\* (file, instance, offset).join() and (id, file, instance, offset).join(),
\* read back by key.keys().  A key is kept as the tuple; sled orders keys by
\* their bytes, which for big-endian fields is the tuple order.
join3(file, instance, offset) == <<file, instance, offset>>
join4(id, file, instance, offset) == <<id, file, instance, offset>>

\* The order of sled keys: byte strings (or tuples of big-endian fields) of
\* one length, compared position by position.
RECURSIVE LexLess(_, _)
LexLess(a, b) ==
    /\ a # <<>>
    /\ \/ Head(a) < Head(b)
       \/ Head(a) = Head(b) /\ LexLess(Tail(a), Tail(b))

\* The keys of a set in sled's order.
RECURSIVE SortedLex(_)
SortedLex(S) ==
    IF S = {} THEN <<>>
    ELSE LET m == CHOOSE x \in S : \A y \in S : y = x \/ LexLess(x, y)
         IN <<m>> \o SortedLex(S \ {m})

\* Tree::insert(key, value) for each key of a set.
Tree_insert_each(tree, keys, value) ==
    [k \in (DOMAIN tree) \cup keys |-> IF k \in keys THEN value ELSE tree[k]]

\* The range gone wrong: it spans the keys of every file.
Regions_range_AllFiles(tree, file, instance) == DOMAIN tree

\* self.markers.range((file, instance, 0) ..= (file, instance, u32::MAX)):
\* the keys of one file and instance.
Regions_range(tree, file, instance) ==
    {k \in DOMAIN tree : k[1] = file /\ k[2] = instance}

\* No key read yet.
NoKey == <<>>

\* The iterator's next(): the least key of the range after the last one read
\* (the iterator reads the live tree), or NoKey at the end of the range.
Regions_range_next(tree, file, instance, last) ==
    LET rest == {k \in Regions_range(tree, file, instance) :
                    last = NoKey \/ LexLess(last, k)}
    IN IF rest = {} THEN NoKey
       ELSE CHOOSE x \in rest : \A y \in rest : y = x \/ LexLess(x, y)

\* finish_file gone wrong: the label list is left in the HashMap's order.
Regions_sort_Unsorted(buf) == buf

\* The .sort() of the EntityId slice in finish_file (lines 110-114).
Regions_sort(buf) == SortIdBytes(buf)

\* finish_file gone wrong: an ended label gets no record, and no label gets
\* the list under its own key.
Regions_finish_key_NoFanOut(st, file, instance, key, value, order) ==
    LET offset == key[3]
        cur == ApplyMarkers(st.current, ParseMarkers(value))
        keep == {id \in DOMAIN cur : cur[id] > offset}
    IN [current |-> [id \in keep |-> cur[id]],
        entity_regions |-> st.entity_regions,
        regions |-> Put(st.regions, join3(file, instance, offset),
                        Regions_sort(ConcatIds(HashOrder(keep, order))))]

\* finish_file gone wrong: an entity that ends at the offset is retained.
Regions_finish_key_KeepEnded(st, file, instance, key, value, order) ==
    LET offset == key[3]
        cur == ApplyMarkers(st.current, ParseMarkers(value))
        keep == {id \in DOMAIN cur : cur[id] >= offset}
        value_buf == Regions_sort(ConcatIds(HashOrder(keep, order)))
    IN [current |-> [id \in keep |-> cur[id]],
        entity_regions |-> Tree_insert_each(st.entity_regions,
                               {join4(id, file, instance, offset) : id \in keep},
                               value_buf),
        regions |-> Put(st.regions, join3(file, instance, offset), value_buf)]

\* finish_file's loop body gone wrong: an entity that ends at the offset gets
\* no empty record.
Regions_finish_key_NoTerminator(st, file, instance, key, value, order) ==
    LET offset == key[3]
        cur == ApplyMarkers(st.current, ParseMarkers(value))
        keep == {id \in DOMAIN cur : cur[id] > offset}
        value_buf == Regions_sort(ConcatIds(HashOrder(keep, order)))
    IN [current |-> [id \in keep |-> cur[id]],
        entity_regions |-> Tree_insert_each(st.entity_regions,
                               {join4(id, file, instance, offset) : id \in keep},
                               value_buf),
        regions |-> Put(st.regions, join3(file, instance, offset), value_buf)]

\* finish_file's loop body gone wrong: an entity that ends at the offset gets
\* a record that lists the entity instead of the empty one.
Regions_finish_key_EndedListed(st, file, instance, key, value, order) ==
    LET offset == key[3]
        cur == ApplyMarkers(st.current, ParseMarkers(value))
        keep == {id \in DOMAIN cur : cur[id] > offset}
        ended == (DOMAIN cur) \ keep
        er1 == [k \in DOMAIN st.entity_regions \cup
                      {join4(id, file, instance, offset) : id \in ended} |->
                   IF \E id \in ended : k = join4(id, file, instance, offset)
                   THEN U32_BE(k[1])
                   ELSE st.entity_regions[k]]
        value_buf == Regions_sort(ConcatIds(HashOrder(keep, order)))
    IN [current |-> [id \in keep |-> cur[id]],
        entity_regions |-> Tree_insert_each(er1,
                               {join4(id, file, instance, offset) : id \in keep},
                               value_buf),
        regions |-> Put(st.regions, join3(file, instance, offset), value_buf)]

\* One pass of finish_file's loop (lines 68-132) for the pair (key, value):
\* the records are merged into current (maximum end per entity); the entities
\* that end after offset are retained and written to value_buf in the
\* order the HashMap visits them, each other entity gets an empty record in entity_regions;
\* value_buf is sorted, stored in entity_regions under every entity it lists
\* and in regions under the offset.
Regions_finish_key(st, file, instance, key, value, order) ==
    LET offset == key[3]
        cur == ApplyMarkers(st.current, ParseMarkers(value))
        keep == {id \in DOMAIN cur : cur[id] > offset}
        ended == (DOMAIN cur) \ keep
        er1 == Tree_insert_each(st.entity_regions,
                   {join4(id, file, instance, offset) : id \in ended}, <<>>)
        value_buf == Regions_sort(ConcatIds(HashOrder(keep, order)))
        entities == Entry_ids(value_buf)
        er2 == Tree_insert_each(er1,
                   {join4(entities[i], file, instance, offset) :
                       i \in 1 .. Len(entities)}, value_buf)
    IN [current |-> [id \in keep |-> cur[id]],
        entity_regions |-> er2,
        regions |-> Put(st.regions, join3(file, instance, offset), value_buf)]

\* finish_file's loop from the key after last to the end of the range, on a
\* tree nobody writes to meanwhile: every state it can end in, one per choice
\* of the HashMap's orders (ids are the ids there are).
RECURSIVE Regions_finish_loop(_, _, _, _, _, _)
Regions_finish_loop(st, tree, file, instance, last, ids) ==
    LET key == Regions_range_next(tree, file, instance, last)
        nexts == {Regions_finish_key(st, file, instance, key, tree[key], order) :
                  order \in HashOrders(ids)}
    IN IF key = NoKey THEN {st}
       ELSE UNION {Regions_finish_loop(n, tree, file, instance, key, ids) :
                   n \in nexts}

\* Regions::finish_file(file, instance) run from start to end on its own: the
\* two index trees it leaves, for every choice of the HashMap's orders.
Regions_finish_file(regions, entity_regions, tree, file, instance, ids) ==
    Regions_finish_loop([current |-> EmptyMap,
                         entity_regions |-> entity_regions,
                         regions |-> regions],
                        tree, file, instance, NoKey, ids)

\* ------------------------------------------------------------ AnnotationSet

\* AnnotationEntry { id, end }.as_bytes(): the 8-byte record.
AnnotationEntry_as_bytes(id, end) == U32_BE(id) \o U32_BE(end)

\* get_offset: u32::from_be_bytes of a key.
get_offset(key) == U32_get(key)

\* AnnotationSet::insert: an empty range is dropped; otherwise the record is
\* merged at the keys start.to_be_bytes() and end.to_be_bytes().
AnnotationSet_insert(tree, id, start, end) ==
    IF start >= end THEN tree
    ELSE Tree_merge(Tree_merge(tree, U32_BE(start), AnnotationEntry_as_bytes(id, end)),
                    U32_BE(end), AnnotationEntry_as_bytes(id, end))

\* finish gone wrong: an annotation is dropped one offset before its end.
AnnotationSet_retain_DropEarly(cur, offset) ==
    {id \in DOMAIN cur : cur[id] > offset + 1}

\* The retain of AnnotationSet::finish: the annotations that end after offset.
AnnotationSet_retain(cur, offset) == {id \in DOMAIN cur : cur[id] > offset}

\* The loop of AnnotationSet::finish over the keys in the tree's order: the
\* records at a key are merged into current, the retained ids are written in
\* the order the HashMap visits them, and the list is inserted into out under
\* the key.  The result is every tree out can end as, one per choice of the
\* HashMap's order at each key.
RECURSIVE AnnotationSet_finish_loop(_, _, _, _)
AnnotationSet_finish_loop(tree, keys, current, out) ==
    IF keys = <<>> THEN {out}
    ELSE LET key == Head(keys)
             offset == get_offset(key)
             cur == ApplyMarkers(current, ParseMarkers(tree[key]))
             keep == AnnotationSet_retain(cur, offset)
         IN UNION {AnnotationSet_finish_loop(tree, Tail(keys),
                       [id \in keep |-> cur[id]],
                       Put(out, key, ConcatIds(HashOrder(keep, order)))) :
                   order \in HashOrders(keep)}

\* AnnotationSet::finish(out): every tree out can end as.
AnnotationSet_finish(tree, out) ==
    AnnotationSet_finish_loop(tree, SortedLex(DOMAIN tree), EmptyMap, out)

\* Regions::iter of report.rs with Region::ids: the id lists of the records of
\* a regions tree, in key order.
Regions_iter(tree) ==
    LET ks == SortedLex(DOMAIN tree)
    IN [i \in 1 .. Len(ks) |-> Entry_ids(tree[ks[i]])]

\* ----------------------------------------------------------- Markers actions

\* FileId::new(1) of marker.rs' test.
MkFiles == {1}

\* No for_each call is running or has just returned.  running and called say
\* that a call is in its loop or has returned; clean says that no mark has
\* merged into the file's records since the call began; last and end_offset
\* are the call's locals, current, value_buf and prev_offset its Finisher's
\* fields (dropped at the return); out holds the entries passed to on_entry;
\* failing says that the callback given is one that may return an error.
NoForEach == [called |-> FALSE, running |-> FALSE, clean |-> TRUE, file |-> 0,
              out |-> <<>>, failing |-> FALSE, result |-> "Ok",
              last |-> NoOffset, end_offset |-> 0, current |-> EmptyMap,
              value_buf |-> <<>>, prev_offset |-> 0]

\* A merge into a file's records: a for_each call of the file that is in its
\* loop no longer runs on its own; one that has returned is forgotten.
MkTouched(file) ==
    IF forEach.running
    THEN [forEach EXCEPT !.clean = @ /\ (forEach.file # file)]
    ELSE NoForEach

\* Markers::mark(file, s..e, id) up to its first merge: an empty range returns
\* Ok at once; otherwise the record is merged at key (file, s).
MkMarkFirst(file, s, e, id) ==
    /\ BagCardinality(mkPending) + BagCardinality(mkDone) < MkMaxCalls
    /\ IF s >= e
       THEN /\ UNCHANGED <<markers, mkPending>>
            /\ forEach' = IF forEach.running THEN forEach ELSE NoForEach
       ELSE /\ markers' = Tree_merge(markers, join(file, s), Marker_as_bytes(id, e))
            /\ mkPending' = mkPending (+) SetToBag({<<file, s, e, id>>})
            /\ forEach' = MkTouched(file)
    /\ mkDone' = mkDone
    /\ emptyCall' = (s >= e)
    /\ UNCHANGED <<rmVars, rgVars, anVars, coreVars>>

\* The second merge of a mark call, at key (file, e); the call then returns.
MkMarkSecond(m) ==
    /\ BagIn(m, mkPending)
    /\ markers' = Tree_merge(markers, join(m[1], m[3]), Marker_as_bytes(m[4], m[3]))
    /\ mkPending' = mkPending (-) SetToBag({m})
    /\ mkDone' = mkDone (+) SetToBag({m})
    /\ forEach' = MkTouched(m[1])
    /\ emptyCall' = FALSE
    /\ UNCHANGED <<rmVars, rgVars, anVars, coreVars>>

\* Markers::for_each(file, on_entry) is called with a callback that records
\* its entries and never fails: Finisher::new, no key read.
MkForEach(file) ==
    /\ ~forEach.running
    /\ forEach' = [NoForEach EXCEPT !.running = TRUE, !.file = file]
    /\ UNCHANGED <<markers, mkPending, mkDone>>
    /\ emptyCall' = FALSE
    /\ UNCHANGED <<rmVars, rgVars, anVars, coreVars>>

\* The errors a callback returns.
MkErrors == {"Err1", "Err2"}

\* Markers::for_each(file, on_entry) is called with a callback that records
\* its entries and may return an error at any of its invocations.
MkForEachFailing(file) ==
    /\ ~forEach.running
    /\ forEach' = [NoForEach EXCEPT !.running = TRUE, !.file = file,
                                     !.failing = TRUE]
    /\ UNCHANGED <<markers, mkPending, mkDone>>
    /\ emptyCall' = FALSE
    /\ UNCHANGED <<rmVars, rgVars, anVars, coreVars>>

\* What the callback of the for_each call in its loop may return when it is
\* invoked.
MkReturns == IF forEach.failing THEN {"Ok"} \cup MkErrors ELSE {"Ok"}

\* The Finisher of the for_each call in its loop, with a callback that
\* returns on_entry at its next invocation.
MkFinisher(on_entry) ==
    [file |-> forEach.file, on_entry |-> on_entry,
     current |-> forEach.current, value_buf |-> forEach.value_buf,
     prev_offset |-> forEach.prev_offset, out |-> forEach.out,
     result |-> forEach.result]

\* The for_each call returns: its locals are dropped.
MkReturned(f) ==
    [NoForEach EXCEPT !.called = TRUE, !.clean = forEach.clean,
                      !.file = forEach.file, !.failing = forEach.failing,
                      !.out = f.out, !.result = f.result]

\* One turn of for_each's loop (lines 67-79): the range iterator reads the
\* next pair from the live tree and on_markers runs on it, its error
\* returned at once; or the range is exhausted, flush(end_offset) runs and
\* the call returns.  Each of them invokes the callback at most once.
MkForEachStep ==
    /\ forEach.running
    /\ LET offset == Markers_range_next(markers, forEach.file, forEach.last)
       IN \E on_entry \in MkReturns :
            IF offset = NoOffset
            THEN forEach' = MkReturned(Finisher_flush(MkFinisher(on_entry),
                                                      forEach.end_offset))
            ELSE \E order \in HashOrders(MkIds) :
                   LET f == Finisher_on_markers(MkFinisher(on_entry), offset,
                                ParseMarkers(markers[join(forEach.file, offset)]),
                                order)
                   IN forEach' = IF f.result # "Ok"
                                  THEN MkReturned(f)
                                  ELSE [forEach EXCEPT !.last = offset,
                                                       !.end_offset = offset,
                                                       !.current = f.current,
                                                       !.value_buf = f.value_buf,
                                                       !.prev_offset = f.prev_offset,
                                                       !.out = f.out]
    /\ UNCHANGED <<markers, mkPending, mkDone>>
    /\ emptyCall' = FALSE
    /\ UNCHANGED <<rmVars, rgVars, anVars, coreVars>>

MkCalls == {<<f, s, e, id>> : f \in MkFiles, s \in MkOffsets, e \in MkOffsets, id \in MkIds}

\* ----------------------------------------------------------- Regions actions

RgCalls == {<<f, s, e, id>> : f \in RgFiles, s \in RgOffsets, e \in RgOffsets, id \in RgIds}

\* No finish_file call has been made for the file.  pc is "idle", "running"
\* or "done"; last and current are the call's locals; clean says that no
\* insert has merged into the file's records since the call began; rerun says
\* that the call began when the call before it had returned and was clean.
NoFinish == [pc |-> "idle", last |-> NoKey, current |-> EmptyMap, clean |-> TRUE,
             rerun |-> FALSE]

\* A merge into a file's marker records while or after a finish_file call of
\* that file ran: the call no longer covers the records stored.
Touched(file) == [fin EXCEPT ![file].clean = (fin[file].pc = "idle")]

\* Regions::insert(file, None, id, s..e) up to its first merge: an empty range
\* returns Ok at once; otherwise the record is merged at (file, instance, s).
RgInsertFirst(file, s, e, id) ==
    /\ BagCardinality(rgPending) + BagCardinality(rgDone) < RgMaxCalls
    /\ IF s >= e
       THEN UNCHANGED <<rgMarkers, rgPending, fin>>
       ELSE /\ rgMarkers' = Tree_merge(rgMarkers, join3(file, DefaultInstance, s),
                                       Marker_as_bytes(id, e))
            /\ rgPending' = rgPending (+) SetToBag({<<file, s, e, id>>})
            /\ fin' = Touched(file)
    /\ emptyCall' = (s >= e)
    /\ UNCHANGED <<rgRegions, rgEntityRegions, rgDone>>
    /\ UNCHANGED <<rmVars, mkVars, anVars, coreVars>>

\* The second merge gone wrong: the call also stores an index record at the
\* mark's end.
RgInsertSecond_WritesIndex(m) ==
    /\ BagIn(m, rgPending)
    /\ rgMarkers' = Tree_merge(rgMarkers, join3(m[1], DefaultInstance, m[3]),
                               Marker_as_bytes(m[4], m[3]))
    /\ rgPending' = rgPending (-) SetToBag({m})
    /\ rgDone' = rgDone (+) SetToBag({m})
    /\ fin' = Touched(m[1])
    /\ emptyCall' = FALSE
    /\ rgRegions' = rgRegions
    /\ rgEntityRegions' = Put(rgEntityRegions,
                              join4(m[4], m[1], DefaultInstance, m[3]), <<>>)
    /\ UNCHANGED <<rmVars, mkVars, anVars, coreVars>>

\* The second merge of an insert call, at (file, instance, e); the call then
\* returns.
RgInsertSecond(m) ==
    /\ BagIn(m, rgPending)
    /\ rgMarkers' = Tree_merge(rgMarkers, join3(m[1], DefaultInstance, m[3]),
                               Marker_as_bytes(m[4], m[3]))
    /\ rgPending' = rgPending (-) SetToBag({m})
    /\ rgDone' = rgDone (+) SetToBag({m})
    /\ fin' = Touched(m[1])
    /\ emptyCall' = FALSE
    /\ UNCHANGED <<rgRegions, rgEntityRegions>>
    /\ UNCHANGED <<rmVars, mkVars, anVars, coreVars>>

\* Regions::finish_file(file, None) is called: empty current, no key read.
RgFinishStart(file) ==
    /\ fin[file].pc \in {"idle", "done"}
    /\ fin' = [fin EXCEPT ![file] = [pc |-> "running", last |-> NoKey,
                                     current |-> EmptyMap, clean |-> TRUE,
                                     rerun |-> (fin[file].pc = "done"
                                                /\ fin[file].clean)]]
    /\ emptyCall' = FALSE
    /\ UNCHANGED <<rgMarkers, rgRegions, rgEntityRegions, rgPending, rgDone>>
    /\ UNCHANGED <<rmVars, mkVars, anVars, coreVars>>

\* One turn of finish_file's loop: the range iterator gives the next pair and
\* the loop body runs on it, or the range is exhausted and the call returns
\* (its locals are dropped).
RgFinishStep(file) ==
    /\ fin[file].pc = "running"
    /\ LET key == Regions_range_next(rgMarkers, file, DefaultInstance, fin[file].last)
       IN IF key = NoKey
          THEN /\ fin' = [fin EXCEPT ![file] = [pc |-> "done", last |-> NoKey,
                                                current |-> EmptyMap,
                                                clean |-> fin[file].clean,
                                                rerun |-> FALSE]]
               /\ UNCHANGED <<rgRegions, rgEntityRegions>>
          ELSE \E order \in HashOrders(RgIds) :
                 LET r == Regions_finish_key(
                              [current |-> fin[file].current,
                               entity_regions |-> rgEntityRegions,
                               regions |-> rgRegions],
                              file, DefaultInstance, key, rgMarkers[key], order)
                 IN /\ rgRegions' = r.regions
                    /\ rgEntityRegions' = r.entity_regions
                    /\ fin' = [fin EXCEPT ![file].last = key,
                                          ![file].current = r.current]
    /\ emptyCall' = FALSE
    /\ UNCHANGED <<rgMarkers, rgPending, rgDone>>
    /\ UNCHANGED <<rmVars, mkVars, anVars, coreVars>>

\* ----------------------------------------------------- AnnotationSet actions

\* AnnotationSet::insert(id, s..e); &mut self, so the call runs on its own.
AnInsert(id, s, e) ==
    /\ anPc = "open"
    /\ anCalls.valid + anCalls.empty < AnMaxCalls
    /\ annotations' = AnnotationSet_insert(annotations, id, s, e)
    /\ anCalls' = IF s >= e THEN [anCalls EXCEPT !.empty = @ + 1]
                  ELSE [anCalls EXCEPT !.valid = @ + 1]
    /\ emptyCall' = (s >= e)
    /\ UNCHANGED <<anOut, anPc>>
    /\ UNCHANGED <<rmVars, mkVars, rgVars, coreVars>>

\* AnnotationSet::finish(out) into an empty tree; the set is consumed.
AnFinish ==
    /\ anPc = "open"
    /\ anOut' \in AnnotationSet_finish(annotations, EmptyMap)
    /\ anPc' = "finished"
    /\ emptyCall' = FALSE
    /\ UNCHANGED <<annotations, anCalls>>
    /\ UNCHANGED <<rmVars, mkVars, rgVars, coreVars>>

\* ------------------------------------------------------------------ Intern

\* A thread outside Intern::intern.
InIdle == [pc |-> "idle", key |-> "", id |-> 0]

\* Intern::intern(key), line 106: value_to_id.get(key).  On Some(id) the call
\* returns *id; on None the thread goes on to the else branch.
InternGet(t, key) ==
    /\ inThreads[t].pc = "idle"
    /\ inCalls < InMaxCalls
    /\ inCalls' = inCalls + 1
    /\ IF key \in DOMAIN value_to_id
       THEN /\ inReturned' = inReturned \cup {<<key, value_to_id[key]>>}
            /\ UNCHANGED inThreads
       ELSE /\ inThreads' = [inThreads EXCEPT ![t] = [pc |-> "missed", key |-> key,
                                                      id |-> 0]]
            /\ UNCHANGED inReturned
    /\ emptyCall' = FALSE
    /\ UNCHANGED <<value_to_id, id_to_value, next_id, inResolved>>
    /\ UNCHANGED <<rmVars, mkVars, rgVars, anVars, cvVars>>

\* Line 109: let id = Id(self.id.fetch_add(1, Ordering::SeqCst)).  The
\* counter wraps around after 2^32 calls; at most InMaxCalls are made here.
InternFetchAdd(t) ==
    /\ inThreads[t].pc = "missed"
    /\ inThreads' = [inThreads EXCEPT ![t].pc = "fetched", ![t].id = next_id]
    /\ next_id' = next_id + 1
    /\ emptyCall' = FALSE
    /\ UNCHANGED <<value_to_id, id_to_value, inCalls, inReturned, inResolved>>
    /\ UNCHANGED <<rmVars, mkVars, rgVars, anVars, cvVars>>

\* Line 111: self.value_to_id.insert(value.clone(), id); DashMap::insert
\* replaces the id stored under an equal value.
InternInsertValue(t) ==
    /\ inThreads[t].pc = "fetched"
    /\ value_to_id' = Put(value_to_id, inThreads[t].key, inThreads[t].id)
    /\ inThreads' = [inThreads EXCEPT ![t].pc = "stored"]
    /\ emptyCall' = FALSE
    /\ UNCHANGED <<id_to_value, next_id, inCalls, inReturned, inResolved>>
    /\ UNCHANGED <<rmVars, mkVars, rgVars, anVars, cvVars>>

\* Lines 112-113: self.id_to_value.insert(id, value); the call returns id.
InternInsertId(t) ==
    /\ inThreads[t].pc = "stored"
    /\ id_to_value' = Put(id_to_value, inThreads[t].id, inThreads[t].key)
    /\ inReturned' = inReturned \cup {<<inThreads[t].key, inThreads[t].id>>}
    /\ inThreads' = [inThreads EXCEPT ![t] = InIdle]
    /\ emptyCall' = FALSE
    /\ UNCHANGED <<value_to_id, next_id, inCalls, inResolved>>
    /\ UNCHANGED <<rmVars, mkVars, rgVars, anVars, cvVars>>

\* Intern::resolve(id), line 126, for an id that an intern call has returned:
\* id_to_value.get(&id).expect("invalid id") gives the value or panics.
InternResolve(t, id) ==
    /\ inThreads[t].pc = "idle"
    /\ \E r \in inReturned : r[2] = id
    /\ inResolved' = inResolved \cup
          {<<id, IF id \in DOMAIN id_to_value THEN id_to_value[id]
                 ELSE "invalid id">>}
    /\ emptyCall' = FALSE
    /\ UNCHANGED <<value_to_id, id_to_value, next_id, inThreads, inCalls,
                   inReturned>>
    /\ UNCHANGED <<rmVars, mkVars, rgVars, anVars, cvVars>>

\* ---------------------------------------------------------------- coverage

\* The handler's invocation is logged; it returns Ok or Err (fails), and on
\* Err `?` returns from notify.
Handler_call(st, call, fails) ==
    [st EXCEPT !.log = Append(st.log, call),
               !.result = IF fails THEN "Err" ELSE "Ok"]

\* One turn of the loop over reference.entities() (lines 31-39): an entity
\* other than the subject for which has_attribute(potential_target, target)
\* answers true is pushed to found.
notify_target(st, subject, potential_target, has_attribute) ==
    IF potential_target = subject \/ ~has_attribute THEN st
    ELSE [st EXCEPT !.found = Append(@, potential_target), !.found_any = TRUE]

\* Lines 41-47 gone wrong: found is not cleared after on_region_success.
notify_region_NoClear(st, subject, index, fails) ==
    IF st.found = <<>>
    THEN Handler_call([st EXCEPT !.all_ok = FALSE],
                      [kind |-> "on_region_failure", entity |-> subject,
                       region |-> index, references |-> <<>>], fails)
    ELSE Handler_call(st,
                      [kind |-> "on_region_success", entity |-> subject,
                       region |-> index, references |-> st.found], fails)

\* Lines 41-47, after the entities of the subject's index-th region have been
\* looked at: on_region_failure when found is empty, else on_region_success
\* and found.clear().
notify_region(st, subject, index, fails) ==
    IF st.found = <<>>
    THEN Handler_call([st EXCEPT !.all_ok = FALSE],
                      [kind |-> "on_region_failure", entity |-> subject,
                       region |-> index, references |-> <<>>], fails)
    ELSE LET st2 == Handler_call(st,
                        [kind |-> "on_region_success", entity |-> subject,
                         region |-> index, references |-> st.found], fails)
         IN IF st2.result = "Ok" THEN [st2 EXCEPT !.found = <<>>] ELSE st2

\* Lines 50-54, after the last region of the subject.
notify_entity(st, subject, fails) ==
    Handler_call(st,
                 [kind |-> IF st.all_ok /\ st.found_any
                           THEN "on_entity_success"
                           ELSE "on_entity_failure",
                  entity |-> subject, region |-> 0, references |-> <<>>], fails)

\* entities.references(subject).next(): the least entity after the last one
\* read that is listed under the subject attribute now (the iterator reads
\* the live tree), or 0 at the end.
Entities_references_next(subjects, last) ==
    LET rest == {e \in subjects : e > last}
    IN IF rest = {} THEN 0 ELSE CHOOSE x \in rest : \A y \in rest : x <= y

\* ------------------------------------------------------- coverage actions

\* No notify call is running or has returned.  running and called say that
\* a call is in its loops or has returned; clean says that nothing has been
\* written to the database since the call began;
\* pc is the loop the call is in ("subjects", "regions" or "entities"); last,
\* subject, index and todo are the iterators' positions (the last subject
\* read, the subject and the place of the region at hand, its entities still
\* to look at); found, all_ok and found_any are the call's locals; log holds
\* the handler's invocations.
NoNotify == [called |-> FALSE, running |-> FALSE, clean |-> TRUE,
             pc |-> "", last |-> 0, subject |-> 0, index |-> 0, todo |-> <<>>,
             found |-> <<>>, all_ok |-> TRUE, found_any |-> FALSE,
             log |-> <<>>, result |-> "Ok"]

\* The regions stored for all entities together.
CvRegionCount ==
    Len(cvRegions[1]) + Len(cvRegions[2]) + Len(cvRegions[3])

\* The database may be written to: not after a notify call has returned, at
\* most once while it runs.
CvMayWrite ==
    /\ ~cvNotify.called
    /\ cvNotify.running => cvNotify.clean

\* A write to the database while a notify call runs is noted.
CvWritten ==
    IF cvNotify.running
    THEN [cvNotify EXCEPT !.clean = FALSE]
    ELSE cvNotify

\* A sequence with one more element at place p.
InsertAt(seq, p, x) ==
    SubSeq(seq, 1, p - 1) \o <<x>> \o SubSeq(seq, p, Len(seq))

\* An entity is given the subject attribute (Entities::set_attribute, the
\* insert into attribute_entities that references reads).
CvSetSubject(e) ==
    /\ CvMayWrite
    /\ cvNotify' = CvWritten
    /\ e \notin cvSubjects
    /\ cvSubjects' = cvSubjects \cup {e}
    /\ emptyCall' = FALSE
    /\ UNCHANGED <<cvTargets, cvRegions>>
    /\ UNCHANGED <<rmVars, mkVars, rgVars, anVars, inVars>>

\* An entity is given the target attribute (Entities::set_attribute, the
\* insert into attributes that has_attribute reads).
CvSetTarget(e) ==
    /\ CvMayWrite
    /\ cvNotify' = CvWritten
    /\ e \notin cvTargets
    /\ cvTargets' = cvTargets \cup {e}
    /\ emptyCall' = FALSE
    /\ UNCHANGED <<cvSubjects, cvRegions>>
    /\ UNCHANGED <<rmVars, mkVars, rgVars, anVars, inVars>>

\* The index gets one more region under a subject (the regions of no other
\* entity are read), with the given entities, at place p of the entity's
\* regions in key order.  An iterator that has read the region after it
\* stays where it is: its index moves by one.
CvAddRegion(e, entities, p) ==
    /\ CvMayWrite
    /\ e \in cvSubjects
    /\ CvRegionCount < CvMaxRegions
    /\ p \in 1 .. Len(cvRegions[e]) + 1
    /\ cvRegions' = [cvRegions EXCEPT ![e] = InsertAt(@, p, entities)]
    /\ cvNotify' = IF cvNotify.running /\ cvNotify.subject = e
                      /\ cvNotify.pc \in {"regions", "entities"}
                      /\ p <= cvNotify.index
                   THEN [CvWritten EXCEPT !.index = @ + 1]
                   ELSE CvWritten
    /\ emptyCall' = FALSE
    /\ UNCHANGED <<cvSubjects, cvTargets>>
    /\ UNCHANGED <<rmVars, mkVars, rgVars, anVars, inVars>>

\* The locals of the notify call in its loops.
CvLocals ==
    [found |-> cvNotify.found, all_ok |-> cvNotify.all_ok,
     found_any |-> cvNotify.found_any, log |-> cvNotify.log,
     result |-> cvNotify.result]

\* The call goes on to the loop pc with the locals st, or returns when the
\* handler has returned Err.
CvGoOn(st, pc) ==
    IF st.result # "Ok"
    THEN [NoNotify EXCEPT !.called = TRUE, !.clean = cvNotify.clean,
                          !.log = st.log, !.result = st.result]
    ELSE [cvNotify EXCEPT !.pc = pc, !.found = st.found, !.all_ok = st.all_ok,
                          !.found_any = st.found_any, !.log = st.log]

\* coverage::notify(db, subject, target, handler) is called with a handler
\* that logs its invocations: found is empty, no subject read (lines 18-20).
CvNotify ==
    /\ ~cvNotify.called /\ ~cvNotify.running
    /\ cvNotify' = [NoNotify EXCEPT !.running = TRUE, !.pc = "subjects"]
    /\ emptyCall' = FALSE
    /\ UNCHANGED <<cvSubjects, cvTargets, cvRegions>>
    /\ UNCHANGED <<rmVars, mkVars, rgVars, anVars, inVars>>

\* One turn of the loop over entities.references(subject), lines 22-26: the
\* next subject is read, or there is none and notify returns Ok.
CvNotifySubject ==
    /\ cvNotify.running /\ cvNotify.pc = "subjects"
    /\ LET subject == Entities_references_next(cvSubjects, cvNotify.last)
       IN cvNotify' =
             IF subject = 0
             THEN [NoNotify EXCEPT !.called = TRUE, !.clean = cvNotify.clean,
                                   !.log = cvNotify.log]
             ELSE [cvNotify EXCEPT !.pc = "regions", !.last = subject,
                                   !.subject = subject, !.index = 0,
                                   !.all_ok = TRUE, !.found_any = FALSE]
    /\ emptyCall' = FALSE
    /\ UNCHANGED <<cvSubjects, cvTargets, cvRegions>>
    /\ UNCHANGED <<rmVars, mkVars, rgVars, anVars, inVars>>

\* One turn of the loop over db.regions().references(subject), line 28: the
\* subject's next region is read; or there is none and the entity callback
\* is invoked (lines 50-54).
CvNotifyRegion ==
    /\ cvNotify.running /\ cvNotify.pc = "regions"
    /\ IF cvNotify.index < Len(cvRegions[cvNotify.subject])
       THEN cvNotify' = [cvNotify EXCEPT
                            !.pc = "entities", !.index = @ + 1,
                            !.todo = cvRegions[cvNotify.subject][cvNotify.index + 1]]
       ELSE \E fails \in BOOLEAN :
               cvNotify' = CvGoOn(notify_entity(CvLocals, cvNotify.subject, fails),
                                  "subjects")
    /\ emptyCall' = FALSE
    /\ UNCHANGED <<cvSubjects, cvTargets, cvRegions>>
    /\ UNCHANGED <<rmVars, mkVars, rgVars, anVars, inVars>>

\* One turn of the loop over reference.entities(), lines 31-39, with its
\* has_attribute read; or, after the last entity, the region callback
\* (lines 41-47).
CvNotifyTarget ==
    /\ cvNotify.running /\ cvNotify.pc = "entities"
    /\ IF cvNotify.todo # <<>>
       THEN LET e == Head(cvNotify.todo)
                st == notify_target(CvLocals, cvNotify.subject, e, e \in cvTargets)
            IN cvNotify' = [cvNotify EXCEPT !.todo = Tail(@),
                                            !.found = st.found,
                                            !.found_any = st.found_any]
       ELSE \E fails \in BOOLEAN :
               cvNotify' = CvGoOn(notify_region(CvLocals, cvNotify.subject,
                                                cvNotify.index, fails),
                                  "regions")
    /\ emptyCall' = FALSE
    /\ UNCHANGED <<cvSubjects, cvTargets, cvRegions>>
    /\ UNCHANGED <<rmVars, mkVars, rgVars, anVars, inVars>>

\* ---------------------------------------------------------- RangeMap actions

\* RangeMap::insert(start..end, id) on a map no iterator borrows.
RMInsert(s, e, id) ==
    /\ rmPc = "idle"
    /\ BagCardinality(rmMarks) < MaxMarks
    /\ rm' = RangeMap_insert(rm, s, e, id)
    /\ rmMarks' = IF s < e THEN rmMarks (+) SetToBag({<<s, e, id>>}) ELSE rmMarks
    /\ emptyCall' = (s >= e)
    /\ UNCHANGED <<debug_assertions, rmPc, iter, rmOut, rmAssert, rmFirst>>
    /\ UNCHANGED <<mkVars, rgVars, anVars, coreVars>>

\* No Iter is alive.
NoFirst == [taken |-> FALSE, out |-> <<>>, done |-> FALSE, map |-> EmptyMap]

\* RangeMap::iter: a fresh Iter with an empty stack.
RMIter ==
    /\ rmPc = "idle"
    /\ rmPc' = "iterating"
    /\ iter' = NewIter
    /\ rmOut' = <<>>
    /\ rmFirst' = [NoFirst EXCEPT !.map = rm]
    /\ emptyCall' = FALSE
    /\ UNCHANGED <<debug_assertions, rm, rmMarks, rmAssert>>
    /\ UNCHANGED <<mkVars, rgVars, anVars, coreVars>>

\* One call of Iter::next.
RMIterNext ==
    /\ rmPc = "iterating"
    /\ LET r == Iter_next(Events(rm), iter.pos, iter.stack, rmAssert,
                          debug_assertions)
       IN /\ iter' = [pos |-> r.pos, stack |-> r.stack]
          /\ rmAssert' = r.as
          /\ rmOut' = IF r.status = "some" THEN Append(rmOut, r.item) ELSE rmOut
          /\ rmPc' = CASE r.status = "some" -> "iterating"
                       [] r.status = "none" -> "finished"
                       [] OTHER -> "panicked"
    /\ emptyCall' = FALSE
    /\ UNCHANGED <<debug_assertions, rm, rmMarks, rmFirst>>
    /\ UNCHANGED <<mkVars, rgVars, anVars, coreVars>>

\* The Iter is dropped (after None, or abandoned); the map can be used again.
RMIterDrop ==
    /\ rmPc \in {"iterating", "finished"}
    /\ rmPc' = "idle"
    /\ iter' = NewIter
    /\ rmOut' = <<>>
    /\ rmAssert' = "none"
    /\ rmFirst' = NoFirst
    /\ emptyCall' = FALSE
    /\ UNCHANGED <<debug_assertions, rm, rmMarks>>
    /\ UNCHANGED <<mkVars, rgVars, anVars, coreVars>>

\* The Iter gone wrong: the fresh Iter starts with the stack of the dropped one.
RMIterAgain_KeepsStack ==
    /\ rmPc \in {"iterating", "finished"}
    /\ ~rmFirst.taken
    /\ rmPc' = "iterating"
    /\ iter' = [NewIter EXCEPT !.stack = iter.stack]
    /\ rmOut' = <<>>
    /\ rmAssert' = "none"
    /\ rmFirst' = [rmFirst EXCEPT !.taken = TRUE, !.out = rmOut,
                                  !.done = (rmPc = "finished")]
    /\ emptyCall' = FALSE
    /\ UNCHANGED <<debug_assertions, rm, rmMarks>>
    /\ UNCHANGED <<mkVars, rgVars, anVars, coreVars>>

\* The first Iter is dropped, after None or abandoned after some entries, and
\* RangeMap::iter is called again on the map at once: a fresh Iter over
\* self.0.iter() with Stack::new().
RMIterAgain ==
    /\ rmPc \in {"iterating", "finished"}
    /\ ~rmFirst.taken
    /\ rmPc' = "iterating"
    /\ iter' = NewIter
    /\ rmOut' = <<>>
    /\ rmAssert' = "none"
    /\ rmFirst' = [rmFirst EXCEPT !.taken = TRUE, !.out = rmOut,
                                  !.done = (rmPc = "finished")]
    /\ emptyCall' = FALSE
    /\ UNCHANGED <<debug_assertions, rm, rmMarks>>
    /\ UNCHANGED <<mkVars, rgVars, anVars, coreVars>>

RMInit ==
    /\ debug_assertions \in BOOLEAN
    /\ rm = EmptyMap
    /\ rmMarks = EmptyBag
    /\ rmPc = "idle"
    /\ iter = NewIter
    /\ rmOut = <<>>
    /\ rmAssert = "none"
    /\ rmFirst = NoFirst

MkInit ==
    /\ markers = EmptyMap
    /\ mkPending = EmptyBag
    /\ mkDone = EmptyBag
    /\ forEach = NoForEach

RgInit ==
    /\ rgMarkers = EmptyMap
    /\ rgRegions = EmptyMap
    /\ rgEntityRegions = EmptyMap
    /\ rgPending = EmptyBag
    /\ rgDone = EmptyBag
    /\ fin = [f \in RgFiles |-> NoFinish]

AnInit ==
    /\ annotations = EmptyMap
    /\ anOut = EmptyMap
    /\ anPc = "open"
    /\ anCalls = [valid |-> 0, empty |-> 0]

\* Intern::default().
InInit ==
    /\ value_to_id = EmptyMap
    /\ id_to_value = EmptyMap
    /\ next_id = 0
    /\ inThreads = [t \in InThreads |-> InIdle]
    /\ inCalls = 0
    /\ inReturned = {}
    /\ inResolved = {}

\* An empty database.
CvInit ==
    /\ cvSubjects = {}
    /\ cvTargets = {}
    /\ cvRegions = [e \in CvEntities |-> <<>>]
    /\ cvNotify = NoNotify

Init ==
    /\ RMInit /\ MkInit /\ RgInit /\ AnInit /\ InInit /\ CvInit
    /\ emptyCall = FALSE

RMNext ==
    \/ \E s \in Offsets, e \in Offsets, id \in Ids : RMInsert(s, e, id)
    \/ RMIter
    \/ RMIterNext
    \/ RMIterDrop

\* The in-memory sweep: inserts into a RangeMap, then iteration.
Spec == Init /\ [][RMNext]_vars

RMSweepsNext ==
    \/ \E s \in Offsets, e \in Offsets, id \in Ids :
          BagCardinality(rmMarks) < MaxSweepMarks /\ RMInsert(s, e, id)
    \/ RMIter
    \/ RMIterNext
    \/ RMIterDrop
    \/ RMIterAgain

\* The in-memory sweep with a second Iter taken over the same map when the
\* first one is dropped.
SpecSweeps == Init /\ [][RMSweepsNext]_vars

MkNext ==
    \/ \E c \in MkCalls : MkMarkFirst(c[1], c[2], c[3], c[4])
    \/ \E m \in MkCalls : MkMarkSecond(m)
    \/ \E file \in MkFiles : MkForEach(file)
    \/ MkForEachStep

\* The persistent store: concurrent mark calls, merge by merge, and for_each
\* calls, loop turn by loop turn.
SpecMarkers == Init /\ [][MkNext]_vars

MkFailingNext ==
    \/ \E c \in MkCalls : ~forEach.called /\ MkMarkFirst(c[1], c[2], c[3], c[4])
    \/ \E m \in MkCalls : ~forEach.called /\ MkMarkSecond(m)
    \/ \E file \in MkFiles :
          ~forEach.called /\ MkForEachFailing(file)
    \/ MkForEachStep

\* The persistent store read by for_each with a callback that may fail: mark
\* calls, merge by merge, and one for_each call, loop turn by loop turn.
SpecFailing == Init /\ [][MkFailingNext]_vars

\* The calls with a non-empty range.
RgValidCalls == {c \in RgCalls : c[2] < c[3]}

\* The file of the one-file specification.
RgOneFile == 1

\* A call with an empty range returns at once and changes nothing; SpecEach
\* explores it.
RgNext ==
    \/ \E c \in RgValidCalls : c[1] = RgOneFile /\ RgInsertFirst(c[1], c[2], c[3], c[4])
    \/ \E m \in RgCalls : RgInsertSecond(m)
    \/ RgFinishStart(RgOneFile)
    \/ RgFinishStep(RgOneFile)

\* region.rs and report.rs have no debug assertion that the model reaches, so
\* their specifications explore one build.
DebugInit == Init /\ debug_assertions = TRUE

\* The store with its indexes, on one file: concurrent insert calls, merge by
\* merge, and finish_file calls, loop turn by loop turn, in any interleaving.
SpecRegions == DebugInit /\ [][RgNext]_vars

\* No finish_file call has been made yet.
NoFinishYet == \A f \in RgFiles : fin[f].pc = "idle"

RgFilesNext ==
    \/ \E c \in RgValidCalls : NoFinishYet /\ RgInsertFirst(c[1], c[2], c[3], c[4])
    \/ \E m \in RgCalls : NoFinishYet /\ RgInsertSecond(m)
    \/ \E file \in RgFiles : fin[file].pc = "idle" /\ RgFinishStart(file)
    \/ \E file \in RgFiles : RgFinishStep(file)

\* The store on two files: insert calls into both, stopped at any point (a
\* call may be left between its merges), then one finish_file call per file,
\* their loop turns interleaved.
SpecFiles == DebugInit /\ [][RgFilesNext]_vars

AnNext ==
    \/ \E id \in AnIds, s \in AnOffsets, e \in AnOffsets : AnInsert(id, s, e)
    \/ AnFinish

\* No loop of finish_file is running on the file.
RgNotRunning(f) == fin[f].pc # "running"

RgHealNext ==
    \/ \E c \in RgValidCalls :
          /\ c[1] = RgOneFile
          /\ RgNotRunning(RgOneFile)
          /\ RgInsertFirst(c[1], c[2], c[3], c[4])
    \/ \E m \in RgCalls : RgNotRunning(RgOneFile) /\ RgInsertSecond(m)
    \/ /\ IF fin[RgOneFile].pc = "idle"
          THEN \E m \in BagToSet(rgPending) : m[1] = RgOneFile
          ELSE \A m \in BagToSet(rgPending) : m[1] # RgOneFile
       /\ RgFinishStart(RgOneFile)
    \/ RgFinishStep(RgOneFile)

\* An early finalization and its repair: the first finish_file call of the
\* file runs from start to end between the two merges of an insert call,
\* every later one after the insert calls made so far have returned.
SpecHeal == DebugInit /\ [][RgHealNext]_vars

InNext ==
    \/ \E t \in InThreads, key \in InValues : InternGet(t, key)
    \/ \E t \in InThreads : InternFetchAdd(t)
    \/ \E t \in InThreads : InternInsertValue(t)
    \/ \E t \in InThreads : InternInsertId(t)
    \/ \E t \in InThreads, id \in 0 .. InMaxCalls : InternResolve(t, id)

\* One Intern shared by threads that call intern and resolve, their steps
\* interleaved at the accesses to the two maps and the counter.
SpecIntern == DebugInit /\ [][InNext]_vars

CvNext ==
    \/ \E e \in CvSubjectIds : CvSetSubject(e)
    \/ \E e \in CvEntities : CvSetTarget(e)
    \/ \E e \in CvEntities, entities \in CvLists, p \in 1 .. CvMaxRegions + 1 :
          CvAddRegion(e, entities, p)
    \/ CvNotify
    \/ CvNotifySubject
    \/ CvNotifyRegion
    \/ CvNotifyTarget

\* A database is filled with attributes and reference regions, and
\* coverage::notify runs on it, read by read, while it may be written to.
SpecCoverage == DebugInit /\ [][CvNext]_vars

\* One AnnotationSet: inserts, then finish.
SpecReport == DebugInit /\ [][AnNext]_vars

\* The structure has not been used yet.
RMUnused == rm = EmptyMap /\ rmPc = "idle"
MkUnused == markers = EmptyMap /\ ~forEach.called /\ ~forEach.running
RgUnused == rgMarkers = EmptyMap /\ \A f \in RgFiles : fin[f].pc = "idle"

\* Regions::insert calls alone, empty ranges included.
RgInsertNext ==
    \/ \E c \in RgCalls : RgInsertFirst(c[1], c[2], c[3], c[4])
    \/ \E m \in RgCalls : RgInsertSecond(m)

EachNext ==
    \/ MkUnused /\ RgUnused /\ RMNext
    \/ RMUnused /\ RgUnused /\ MkNext
    \/ RMUnused /\ MkUnused /\ RgInsertNext

\* The three structures that take marks, each used on its own: a behaviour
\* works on a RangeMap, on a Markers store or on a Regions store.
SpecEach == Init /\ [][EachNext]_vars

\* ------------------------------------------------- claims on the RangeMap

\* The marks inserted so far, as a set.
RmMarkSet == BagToSet(rmMarks)

\* The labels active over start..end: every offset of the range lies in some
\* inserted mark of the label (one mark covering it all, or marks of the label
\* that overlap or touch and cover it together).
LabelsOver(start, end) ==
    {id \in Ids : \A x \in start .. end - 1 :
                     \E m \in RmMarkSet : m[3] = id /\ m[1] <= x /\ x < m[2]}

\* The byte at offset x (the range x..x+1) is covered by some mark.
Covered(x) == \E m \in RmMarkSet : m[1] <= x /\ x < m[2]

SeqToSet(q) == {q[i] : i \in 1 .. Len(q)}

\* Every order in which the marks of a multiset can be passed to insert.
Orderings(bag) ==
    LET n == BagCardinality(bag)
    IN {q \in [1 .. n -> BagToSet(bag)] :
          \A m \in BagToSet(bag) :
              Cardinality({i \in 1 .. n : q[i] = m}) = CopiesIn(m, bag)}

RECURSIVE InsertAll(_, _)
InsertAll(map, q) ==
    IF q = <<>> THEN map
    ELSE InsertAll(RangeMap_insert(map, Head(q)[1], Head(q)[2], Head(q)[3]), Tail(q))

\* C1: order independence of the in-memory sweep.  Whatever order the marks
\* inserted so far are passed to RangeMap::insert on an empty map, iter yields
\* the sequence of entries it yields for the map as it was built.
C1_OrderIndependent ==
    \A q \in Orderings(rmMarks) :
        RangeMap_collect(InsertAll(EmptyMap, q), debug_assertions).out
            = RangeMap_collect(rm, debug_assertions).out

\* C3: exact label sets of the sweep.  Every yielded entry carries exactly the
\* labels whose marks cover its range, and once the iteration has returned
\* None every offset covered by some mark lies in some yielded entry.
C3_ExactLabelSets ==
    /\ \A i \in 1 .. Len(rmOut) :
          SeqToSet(rmOut[i].ids) = LabelsOver(rmOut[i].start, rmOut[i].end)
    /\ rmPc = "finished" =>
          \A x \in Offsets :
              Covered(x) => \E i \in 1 .. Len(rmOut) :
                                rmOut[i].start <= x /\ x < rmOut[i].end

\* C4: no reference-count underflow.  The sweep never reaches the Vacant arm
\* of a closing event in Stack::insert or Stack::maybe_insert.
C4_NoUnderflow == rmAssert \notin {"insert", "maybe_insert"}

\* C5: empty active map at termination.  Once the Iter has consumed the last
\* stored event its stack is empty.
C5_EmptyAtEnd ==
    (rmPc # "idle" /\ iter.pos = Len(Events(rm))) => DOMAIN iter.stack = {}

\* C7: maximality of the sweep output.  No two consecutive yielded entries
\* touch (e1.end = e2.start) and carry the same label set.
C7_Maximal ==
    \A i \in 1 .. Len(rmOut) - 1 :
        ~(rmOut[i].end = rmOut[i + 1].start /\ rmOut[i].ids = rmOut[i + 1].ids)

\* C7 happens: after a mark nested inside another of the same label (an event
\* the look-ahead passes silently), two touching entries were yielded.
C7_Witness ==
    /\ Len(rmOut) >= 2
    /\ rmOut[1].end = rmOut[2].start
    /\ \E m \in RmMarkSet, n \in RmMarkSet :
          m[3] = n[3] /\ m[1] < n[1] /\ n[2] < m[2]

\* C10 (RangeMap half): no yielded entry has an empty label set, and every
\* offset inside a yielded entry is covered by some mark.
C10_NonEmpty ==
    \A i \in 1 .. Len(rmOut) :
        /\ rmOut[i].ids # <<>>
        /\ \A x \in Offsets :
              (rmOut[i].start <= x /\ x < rmOut[i].end) => Covered(x)

\* ------------------------------------- claims on the RangeMap, second part

\* Per label, no two marks of the multiset share a start offset and no two
\* share an end offset (a mark passed twice shares both with itself).
DistinctEnds(bag) ==
    \A m \in BagToSet(bag) :
        /\ CopiesIn(m, bag) = 1
        /\ \A n \in BagToSet(bag) :
              (n # m /\ n[3] = m[3]) => (n[1] # m[1] /\ n[2] # m[2])

\* The byte at offset x lies inside some yielded entry.
Yielded(x) == \E i \in 1 .. Len(rmOut) : rmOut[i].start <= x /\ x < rmOut[i].end

\* C12: coverage equivalence.  When, per label, no two marks share a start
\* offset and no two share an end offset, iteration runs to its end without a
\* failed assertion, every byte it yields is covered by a mark, and once it
\* has finished every byte covered by a mark has been yielded.
C12_CoverageEquivalent ==
    DistinctEnds(rmMarks) =>
        /\ rmPc # "panicked"
        /\ rmAssert = "none"
        /\ \A x \in Offsets : Yielded(x) => Covered(x)
        /\ rmPc = "finished" => \A x \in Offsets : Covered(x) => Yielded(x)

\* C12 happens: three marks, two of one label that overlap partly and touch a
\* third, have been swept to the end.
C12_Witness ==
    /\ rmPc = "finished"
    /\ DistinctEnds(rmMarks)
    /\ BagCardinality(rmMarks) = 3
    /\ \E m \in RmMarkSet, n \in RmMarkSet :
          m[3] = n[3] /\ m[1] < n[1] /\ n[1] < m[2] /\ m[2] < n[2]
    /\ \E m \in RmMarkSet, n \in RmMarkSet : m[3] = n[3] /\ m[2] = n[1]

\* The marks have pairwise distinct labels and pairwise disjoint ranges that
\* do not touch either.
DisjointMarks(bag) ==
    \A m \in BagToSet(bag) :
        /\ CopiesIn(m, bag) = 1
        /\ \A n \in BagToSet(bag) :
              n # m => (n[3] # m[3] /\ (n[2] < m[1] \/ m[2] < n[1]))

\* One entry per mark, with the mark's range and its label alone, ascending
\* by start offset.
OneEntryPerMark(S) ==
    LET starts == SortedSeq({m[1] : m \in S})
        at(i) == CHOOSE m \in S : m[1] = starts[i]
    IN [i \in 1 .. Len(starts) |->
          [start |-> at(i)[1], end |-> at(i)[2], ids |-> <<at(i)[3]>>]]

\* C13: disjointness preservation.  For marks with pairwise disjoint,
\* non-touching ranges and pairwise distinct labels, in whatever order they
\* were inserted, iteration yields exactly one entry per mark, carrying that
\* mark's range and its label alone, in ascending order of start offset.
C13_DisjointPreserved ==
    DisjointMarks(rmMarks) =>
        LET exp == OneEntryPerMark(RmMarkSet)
        IN /\ rmPc # "panicked"
           /\ Len(rmOut) <= Len(exp)
           /\ rmOut = SubSeq(exp, 1, Len(rmOut))
           /\ rmPc = "finished" => rmOut = exp

\* C13 happens: two disjoint marks of different labels, the later one
\* inserted first, have been swept to the end.
C13_Witness ==
    /\ rmPc = "finished"
    /\ DisjointMarks(rmMarks)
    /\ BagCardinality(rmMarks) = 2
    /\ Len(rmOut) = 2
    /\ rmOut[1].ids = <<1>>

\* The multiset is exactly the two marks a..b and b..c of one label.
TouchingPair(bag, a, b, c, id) ==
    /\ a < b /\ b < c
    /\ bag = SetToBag({<<a, b, id>>, <<b, c, id>>})

\* C14: touching merge.  After exactly the two marks a..b and b..c of one
\* label were inserted into an empty RangeMap, in either order, no event is
\* stored at (b, label) and iteration yields the single entry (a..c, {label}).
C14_TouchingMerge ==
    \A a \in Offsets, b \in Offsets, c \in Offsets, id \in Ids :
        TouchingPair(rmMarks, a, b, c, id) =>
            /\ <<b, id>> \notin DOMAIN rm
            /\ DOMAIN rm = {<<a, id>>, <<c, id>>}
            /\ rmPc # "panicked"
            /\ Len(rmOut) <= 1
            /\ rmPc = "finished" =>
                  rmOut = <<[start |-> a, end |-> c, ids |-> <<id>>]>>

\* C14 happens: the pair 1..2 and 2..4 of label 0 has been swept to the end.
C14_Witness ==
    /\ rmPc = "finished"
    /\ TouchingPair(rmMarks, 1, 2, 4, 0)
    /\ Len(rmOut) = 1

\* ------------------------------------- claims on the RangeMap, third part

\* C26: no zero-length entries.  For every multiset of valid marks inserted
\* into a RangeMap, every entry yielded by iteration has start < end.
C26_NoZeroLength ==
    \A i \in 1 .. Len(rmOut) : rmOut[i].start < rmOut[i].end

\* The reference counts after the event e = <<offset, id, enabled>>: an
\* opening event adds one, a closing event takes one away and removes the
\* label at zero; a closing event of an absent label leaves them as they are.
ApplyEvent(stack, e) ==
    IF e[3]
    THEN IF e[2] \in DOMAIN stack
         THEN [stack EXCEPT ![e[2]] = @ + 1]
         ELSE Put(stack, e[2], 1)
    ELSE IF e[2] \in DOMAIN stack
         THEN IF stack[e[2]] = 1
              THEN Remove(stack, e[2])
              ELSE [stack EXCEPT ![e[2]] = @ - 1]
         ELSE stack

\* Applying the event changes whether its label is present (0 to 1, 1 to 0).
Flips(stack, e) ==
    (e[2] \in DOMAIN stack) # (e[2] \in DOMAIN ApplyEvent(stack, e))

\* None of the events ev[i] .. ev[to], applied one after the other from
\* `stack`, flips presence; with later = TRUE only the events at another
\* offset than the segment's are asked.
RECURSIVE NoFlips(_, _, _, _, _, _)
NoFlips(ev, i, to, stack, offset, later) ==
    IF i > to THEN TRUE
    ELSE /\ (later /\ ev[i][1] = offset) \/ ~Flips(stack, ev[i])
         /\ NoFlips(ev, i + 1, to, ApplyEvent(stack, ev[i]), offset, later)

\* The segments the next call of Iter::next goes through from (pos, stack),
\* up to the one it returns: the look-ahead has applied no flipping event,
\* and where it stopped before the last event, the event it stopped at
\* flips presence and lies at a later offset than the segment's first.
RECURSIVE LookaheadStops(_, _, _, _, _)
LookaheadStops(ev, pos, stack, dbg, later) ==
    IF pos >= Len(ev) THEN TRUE
    ELSE LET e == ev[pos + 1]
             r == Stack_insert(stack, e[2], e[3])
             la == Lookahead(ev, pos + 1, r.stack, e[1], e[1], "none", dbg)
         IN IF r.hit /\ dbg THEN TRUE
            ELSE /\ NoFlips(ev, pos + 2, la.pos, r.stack, e[1], later)
                 /\ (~la.panic /\ la.pos < Len(ev)) =>
                       /\ Flips(la.stack, ev[la.pos + 1])
                       /\ e[1] < ev[la.pos + 1][1]
                 /\ (~la.panic /\ DOMAIN la.stack = {}) =>
                       LookaheadStops(ev, la.pos, la.stack, dbg, later)

\* C23 as stated: no event that the look-ahead of Iter::next applies after
\* the segment's first event flips the presence of its label; the look-ahead
\* stops at the first event that would, and the next segment starts there.
C23_NoFlipApplied ==
    rmPc = "iterating" =>
        /\ LookaheadStops(Events(rm), iter.pos, iter.stack, debug_assertions,
                          FALSE)
        /\ (0 < iter.pos /\ iter.pos < Len(Events(rm))) =>
              Flips(iter.stack, Events(rm)[iter.pos + 1])

\* C23: the look-ahead of Iter::next applies every event at the offset of the
\* segment's first event, whether or not it flips presence; of the events at
\* later offsets it applies none that flips the presence of its label: it
\* stops at the first such event, which becomes the first event of the next
\* segment.
C23_NoLaterFlipApplied ==
    rmPc = "iterating" =>
        /\ LookaheadStops(Events(rm), iter.pos, iter.stack, debug_assertions,
                          TRUE)
        /\ (0 < iter.pos /\ iter.pos < Len(Events(rm))) =>
              Flips(iter.stack, Events(rm)[iter.pos + 1])

\* C23 happens: the entry returned last spans an event at an offset inside
\* it, which the look-ahead applied, and an event is left, at which the
\* look-ahead stopped.
C23_Witness ==
    /\ rmPc = "iterating"
    /\ Len(rmOut) >= 1
    /\ iter.pos < Len(Events(rm))
    /\ Flips(iter.stack, Events(rm)[iter.pos + 1])
    /\ \E i \in 1 .. iter.pos :
          /\ rmOut[Len(rmOut)].start < Events(rm)[i][1]
          /\ Events(rm)[i][1] < rmOut[Len(rmOut)].end

\* The shorter of the two sequences is the start of the longer one.
SamePrefix(a, b) ==
    \A i \in 1 .. Len(a) : i <= Len(b) => a[i] = b[i]

\* C21: restartable sweep.  Iteration leaves the stored events as they were
\* when the Iter was created; a fresh Iter taken over the same map after the
\* first one ran to its end, or was abandoned after any number of entries,
\* yields entry by entry what the first one yielded, and once it has ended it
\* has yielded the whole sequence a single sweep of the map yields.
C21_Restartable ==
    /\ rmPc # "idle" => rm = rmFirst.map
    /\ rmFirst.taken =>
          /\ SamePrefix(rmOut, rmFirst.out)
          /\ SamePrefix(rmOut,
                        RangeMap_collect(rmFirst.map, debug_assertions).out)
          /\ SamePrefix(rmFirst.out,
                        RangeMap_collect(rmFirst.map, debug_assertions).out)
          /\ rmPc = "finished" =>
                /\ rmOut = RangeMap_collect(rmFirst.map, debug_assertions).out
                /\ Len(rmFirst.out) <= Len(rmOut)
                /\ rmFirst.done => rmOut = rmFirst.out

\* C21 happens: the first Iter was abandoned after one entry and the second
\* has run to its end and yielded three.
C21_Witness ==
    /\ rmFirst.taken
    /\ ~rmFirst.done
    /\ Len(rmFirst.out) = 1
    /\ rmPc = "finished"
    /\ Len(rmOut) = 3

\* -------------------------------------------------- claims on the Markers

\* The mark calls whose first merge has been made, and those that returned.
MkStarted == mkPending (+) mkDone

\* The records a key must hold: one per started mark that starts at o, one per
\* returned mark that ends at o, as a multiset of <<id, end>>.
RECURSIVE BagOfSeq(_)
BagOfSeq(q) ==
    IF q = <<>> THEN EmptyBag ELSE SetToBag({Head(q)}) (+) BagOfSeq(Tail(q))

RecordsOf(value) ==
    LET ms == ParseMarkers(value)
    IN BagOfSeq([i \in 1 .. Len(ms) |-> <<ms[i].id, ms[i].end>>])

RECURSIVE SumCopies(_, _)
SumCopies(S, bag) ==
    IF S = {} THEN 0
    ELSE LET m == CHOOSE x \in S : TRUE
         IN CopiesIn(m, bag) + SumCopies(S \ {m}, bag)

\* How many of the calls of a bag are a mark of (id, end) on file with the
\* boundary picked by field k (2: start, 3: end) at offset o.
CountAt(bag, file, o, k, id, end) ==
    SumCopies({m \in BagToSet(bag) :
                  m[1] = file /\ m[k] = o /\ m[4] = id /\ m[3] = end}, bag)

ExpectedCount(file, o, id, end) ==
    CountAt(MkStarted, file, o, 2, id, end) + CountAt(mkDone, file, o, 3, id, end)

\* The sequential store: each call of a multiset run to completion, one after
\* the other, in the order of the calls' tuples.
RECURSIVE SequentialTree(_, _)
SequentialTree(tree, bag) ==
    IF bag = EmptyBag THEN tree
    ELSE LET m == CHOOSE x \in BagToSet(bag) :
                     \A y \in BagToSet(bag) :
                         \/ x = y
                         \/ \E k \in 1 .. 4 :
                               x[k] < y[k] /\ \A j \in 1 .. k - 1 : x[j] = y[j]
         IN SequentialTree(
                Tree_merge(Tree_merge(tree, join(m[1], m[2]), Marker_as_bytes(m[4], m[3])),
                           join(m[1], m[3]), Marker_as_bytes(m[4], m[3])),
                bag (-) SetToBag({m}))

\* C2: arrival-order independence of the persistent store.  Once every mark
\* call has returned, a for_each call passes the entries it passes for the
\* store the same calls build when run one after the other, whatever the
\* interleaving of the merges was and whatever orders its HashMap takes.
C2_ArrivalOrderIndependent ==
    (forEach.called /\ forEach.clean /\ mkPending = EmptyBag) =>
        Markers_for_each(SequentialTree(EmptyMap, mkDone), forEach.file, MkIds)
            = {forEach.out}

\* C2 happens: two calls whose merges at one key arrived in the order opposite
\* to the sequential one have returned, and for_each has run.
C2_Witness ==
    /\ forEach.called
    /\ forEach.clean
    /\ mkPending = EmptyBag
    /\ BagCardinality(mkDone) = 2
    /\ markers # SequentialTree(EmptyMap, mkDone)
    /\ forEach.out # <<>>

\* C6: append-only boundary records with no lost update.  The value at each
\* key (file, o) is made of 8-byte records: exactly one (label, end) record
\* per started mark that starts at o and one per returned mark that ends at
\* o, counted with multiplicity, and a key no mark touches is absent.
C6_NoLostUpdate ==
    \A file \in MkFiles, o \in MkOffsets :
        LET key == join(file, o)
            value == IF key \in DOMAIN markers THEN markers[key] ELSE <<>>
            recs == RecordsOf(value)
        IN /\ Len(value) % 8 = 0
           /\ \A id \in MkIds, end \in MkOffsets :
                 (IF BagIn(<<id, end>>, recs) THEN CopiesIn(<<id, end>>, recs) ELSE 0)
                     = ExpectedCount(file, o, id, end)
           /\ \A r \in BagToSet(recs) : r[1] \in MkIds /\ r[2] \in MkOffsets
           /\ (key \in DOMAIN markers) <=> (value # <<>>)

\* C6 happens: two returned calls have merged into one key, which holds both
\* records.
C6_Witness ==
    /\ mkPending = EmptyBag
    /\ BagCardinality(mkDone) = 2
    /\ \E k \in DOMAIN markers : Len(markers[k]) = 16

\* The entries of the last for_each as (start, end, ids).
FeLen == Len(forEach.out)
FeIds(i) == Entry_ids(forEach.out[i].buf)

\* C8 as claimed: a for_each call that runs with every mark call returned
\* never passes two consecutive entries that touch
\* and carry identical id lists.
C8_MaximalPartition ==
    (forEach.called /\ forEach.clean /\ mkPending = EmptyBag) =>
        \A i \in 1 .. FeLen - 1 :
            ~(forEach.out[i].end = forEach.out[i + 1].start
              /\ forEach.out[i].buf = forEach.out[i + 1].buf)

\* Two different calls of the multiset: distinct marks, or one mark made twice.
TwoCalls(bag, m, n) ==
    /\ m \in BagToSet(bag) /\ n \in BagToSet(bag)
    /\ (m # n \/ CopiesIn(m, bag) >= 2)

\* C8 amended: when for_each runs with every mark call returned, two
\* consecutive entries touch at an offset o with identical id
\* lists only where a label of the list has one stored mark that starts or
\* ends at o and another stored mark that contains o (start <= o <= end).
C8_SplitOnlyAtSameLabelBoundary ==
    (forEach.called /\ forEach.clean /\ mkPending = EmptyBag) =>
        \A i \in 1 .. FeLen - 1 :
            (forEach.out[i].end = forEach.out[i + 1].start
             /\ forEach.out[i].buf = forEach.out[i + 1].buf) =>
                LET o == forEach.out[i].end
                IN \E m \in BagToSet(mkDone), n \in BagToSet(mkDone) :
                      /\ TwoCalls(mkDone, m, n)
                      /\ m[1] = forEach.file /\ n[1] = forEach.file
                      /\ m[4] = n[4]
                      /\ m[4] \in SeqToSet(FeIds(i))
                      /\ (m[2] = o \/ m[3] = o)
                      /\ n[2] <= o /\ o <= n[3]

\* C8 happens: for_each has passed two touching entries with one id list.
C8_Witness ==
    /\ forEach.called
    /\ forEach.clean
    /\ mkPending = EmptyBag
    /\ \E i \in 1 .. FeLen - 1 :
          /\ forEach.out[i].end = forEach.out[i + 1].start
          /\ forEach.out[i].buf = forEach.out[i + 1].buf

\* K: the ascending list of the distinct start and end offsets of the marks
\* stored for a file.
BoundaryOffsets(file) ==
    SortedSeq({m[2] : m \in {x \in BagToSet(mkDone) : x[1] = file}}
              \cup {m[3] : m \in {x \in BagToSet(mkDone) : x[1] = file}})

\* The labels with a stored mark of the file covering p..q.
MkLabelsOver(file, p, q) ==
    {id \in MkIds : \E m \in BagToSet(mkDone) :
                       m[1] = file /\ m[4] = id /\ m[2] <= p /\ q <= m[3]}

\* The entries C9 describes: one per pair of consecutive offsets of K that
\* some label covers, in ascending order.
RECURSIVE ExpectedEntries(_, _, _)
ExpectedEntries(file, K, i) ==
    IF i >= Len(K) THEN <<>>
    ELSE LET ls == MkLabelsOver(file, K[i], K[i + 1])
         IN (IF ls = {} THEN <<>>
             ELSE <<[start |-> K[i], end |-> K[i + 1], ids |-> SortedSeq(ls)]>>)
            \o ExpectedEntries(file, K, i + 1)

\* C9: the entries of for_each.  With every mark call returned before the
\* for_each call began, the callback is
\* invoked exactly once per pair of consecutive boundary offsets p < q that
\* some label covers, in ascending order, with start = p, end = q and ids the
\* ascending duplicate-free list of exactly the covering labels.
C9_ForEachEntries ==
    (forEach.called /\ forEach.clean /\ mkPending = EmptyBag) =>
        [i \in 1 .. FeLen |->
            [start |-> forEach.out[i].start, end |-> forEach.out[i].end,
             ids |-> FeIds(i)]]
            = ExpectedEntries(forEach.file, BoundaryOffsets(forEach.file), 1)

\* C9 happens: for_each has run over two stored marks of different labels
\* with a gap between them.
C9_Witness ==
    /\ forEach.called
    /\ forEach.clean
    /\ mkPending = EmptyBag
    /\ FeLen = 2
    /\ forEach.out[1].end < forEach.out[2].start
    /\ FeIds(1) # FeIds(2)

\* ------------------------------------------ claims on the three structures

\* The entries of a sequence are ordered and do not overlap: each entry has
\* start <= end, and each entry ends no later than the next one starts.
OrderedEntries(out) ==
    /\ \A i \in 1 .. Len(out) : out[i].start <= out[i].end
    /\ \A i \in 1 .. Len(out) - 1 : out[i].end <= out[i + 1].start

\* C11: ordered, non-overlapping output.  Any two consecutive entries e1, e2
\* yielded by RangeMap::iter, and any two passed to the callback by
\* Markers::for_each, satisfy e1.start <= e1.end <= e2.start.
C11_OrderedOutput == OrderedEntries(rmOut) /\ OrderedEntries(forEach.out)

\* C11 happens: for_each has passed three entries to its callback, for marks
\* that overlap.
C11_Witness ==
    /\ forEach.called
    /\ Len(forEach.out) = 3
    /\ \E m \in BagToSet(mkDone), n \in BagToSet(mkDone) :
          m[2] < n[2] /\ n[2] < m[3] /\ m[3] < n[3]

\* C15: invalid range is a no-op.  A call of RangeMap::insert, Markers::mark
\* or Regions::insert whose range has start >= end returns at once (no merge
\* of it is left to do) and leaves every stored boundary record as it was.
C15_EmptyRangeNoOp ==
    [][emptyCall' =>
          /\ rm' = rm
          /\ markers' = markers /\ mkPending' = mkPending
          /\ rgMarkers' = rgMarkers /\ rgPending' = rgPending]_vars

\* C15 happens: Regions::insert was called with an empty range while the
\* store held a record and another insert was between its two merges.
C15_Witness ==
    /\ emptyCall
    /\ rgMarkers # EmptyMap
    /\ rgPending # EmptyBag

\* The entries for_each passes to a callback that never fails, on the
\* records stored now (one sequence, whatever the HashMap's orders).
MkAllEntries ==
    CHOOSE out \in Markers_for_each(markers, forEach.file, MkIds) : TRUE

\* C25: error propagation.  When the callback given to Markers::for_each
\* returns an error at one of its invocations, for_each returns that error,
\* the callback has been invoked for the entries up to that one, once each,
\* and for no entry after it; while the callback returns Ok it sees every
\* entry and for_each returns Ok.  The entries are those of the records
\* stored when no mark merges while the call runs.
C25_ErrorPropagates ==
    (forEach.called /\ forEach.failing) =>
        /\ \A i \in 1 .. Len(forEach.out) - 1 : forEach.out[i].ret = "Ok"
        /\ forEach.result = IF forEach.out = <<>> THEN "Ok"
                            ELSE forEach.out[Len(forEach.out)].ret
        /\ forEach.clean =>
              LET outs == Markers_for_each(markers, forEach.file, MkIds)
                  all == CHOOSE out \in outs : TRUE
              IN /\ Cardinality(outs) = 1
                 /\ Len(forEach.out) <= Len(all)
                 /\ \A i \in 1 .. Len(forEach.out) :
                       [forEach.out[i] EXCEPT !.ret = "Ok"] = all[i]
                 /\ forEach.result = "Ok" => Len(forEach.out) = Len(all)

\* C25 happens: the callback failed at the second of three entries and
\* for_each returned its error after two invocations.
C25_Witness ==
    /\ forEach.called
    /\ forEach.clean
    /\ forEach.failing
    /\ forEach.result = "Err2"
    /\ Len(forEach.out) = 2
    /\ Len(MkAllEntries) = 3

\* ------------------------------------------------- claims on the Regions

\* The label list stored in a record.
RgIdsAt(tree, key) == Entry_ids(tree[key])

\* C16: idempotent finalization.  When finish_file(file, instance) has run to
\* its end with no insert merging into the file's records meanwhile, and it
\* is run again with still no insert, no turn of the second run changes
\* regions or entity_regions: every record it writes is already there, with
\* the same label list in the same order.
C16_Idempotent ==
    [][\A f \in RgFiles :
          (fin[f].pc = "running" /\ fin[f].rerun /\ fin[f].clean) =>
              (rgRegions' = rgRegions /\ rgEntityRegions' = rgEntityRegions)]_vars

\* C16 happens: a second run has rewritten a record that lists two labels,
\* and a record of a label that ended.
C16_Witness ==
    \E f \in RgFiles :
        /\ fin[f].pc = "running" /\ fin[f].rerun /\ fin[f].clean
        /\ fin[f].last # NoKey
        /\ \E o \in RgOffsets :
              /\ fin[f].last = join3(f, DefaultInstance, o)
              /\ \E p \in 0 .. o :
                    /\ join3(f, DefaultInstance, p) \in DOMAIN rgRegions
                    /\ Len(RgIdsAt(rgRegions, join3(f, DefaultInstance, p))) = 2
              /\ \E id \in RgIds :
                    /\ join4(id, f, DefaultInstance, o) \in DOMAIN rgEntityRegions
                    /\ rgEntityRegions[join4(id, f, DefaultInstance, o)] = <<>>

\* A sequence of ids is ascending and has no duplicate.
Ascending(ids) == \A i \in 1 .. Len(ids) - 1 : ids[i] < ids[i + 1]

\* The offsets at which regions holds a record of the file.
RgRecordOffsets(f) ==
    {o \in RgOffsets : join3(f, DefaultInstance, o) \in DOMAIN rgRegions}

\* The labels under which entity_regions holds a non-empty record at (f, o).
RgIndexed(f, o) ==
    {id \in RgIds :
        /\ join4(id, f, DefaultInstance, o) \in DOMAIN rgEntityRegions
        /\ rgEntityRegions[join4(id, f, DefaultInstance, o)] # <<>>}

\* C17: fan-out consistency.  After finish_file(file, instance) has returned,
\* for every boundary offset o with a record in regions, the list is
\* ascending and duplicate-free, entity_regions holds that same list under
\* every label of it, and the labels with a non-empty record at o are exactly
\* the k labels of the list.
C17_FanOut ==
    \A f \in RgFiles :
        fin[f].pc = "done" =>
            \A o \in RgRecordOffsets(f) :
                LET list == rgRegions[join3(f, DefaultInstance, o)]
                    ids == Entry_ids(list)
                IN /\ Ascending(ids)
                   /\ \A i \in 1 .. Len(ids) :
                         /\ join4(ids[i], f, DefaultInstance, o) \in DOMAIN rgEntityRegions
                         /\ rgEntityRegions[join4(ids[i], f, DefaultInstance, o)] = list
                   /\ Cardinality(RgIndexed(f, o)) = Len(ids)

\* C17 happens: a finished file has a record of two labels, a record of one
\* label and an empty one.
C17_Witness ==
    \E f \in RgFiles :
        /\ fin[f].pc = "done"
        /\ \E o \in RgRecordOffsets(f) : Len(RgIdsAt(rgRegions, join3(f, DefaultInstance, o))) = 2
        /\ \E o \in RgRecordOffsets(f) : Len(RgIdsAt(rgRegions, join3(f, DefaultInstance, o))) = 1
        /\ \E o \in RgRecordOffsets(f) : rgRegions[join3(f, DefaultInstance, o)] = <<>>

\* The insert calls whose start record is stored: returned, or between their
\* two merges.
RgStarted == BagToSet(rgPending) \cup BagToSet(rgDone)

\* The active set of a file at an offset: the labels with a started mark
\* start..end of the file such that start <= offset < end.
RgActiveAt(f, o) ==
    {id \in RgIds : \E m \in RgStarted :
        m[1] = f /\ m[4] = id /\ m[2] <= o /\ o < m[3]}

\* The keys of entity_regions that carry the file.
RgEntityKeys(f) == {k \in DOMAIN rgEntityRegions : k[2] = f}

\* finish_file(f) has returned and covers the records stored for f.
RgFinished(f) == fin[f].pc = "done" /\ fin[f].clean

\* C18 as stated: after finish_file, every record stored in entity_regions
\* under a label L lists L and equals the active set at its offset.
C18_EveryRecordListsItsLabel ==
    \A f \in RgFiles :
        RgFinished(f) =>
            \A k \in RgEntityKeys(f) :
                /\ \E i \in 1 .. Len(RgIdsAt(rgEntityRegions, k)) :
                      RgIdsAt(rgEntityRegions, k)[i] = k[1]
                /\ rgEntityRegions[k] = ConcatIds(SortedSeq(RgActiveAt(f, k[4])))

\* C18, amended: after finish_file, every non-empty record stored in
\* entity_regions under a label L lists L and equals the active set at its
\* offset; every other record under L is the empty list, stored at an offset
\* where L is not active.
C18_NonEmptyRecordListsItsLabel ==
    \A f \in RgFiles :
        RgFinished(f) =>
            \A k \in RgEntityKeys(f) :
                IF rgEntityRegions[k] = <<>>
                THEN k[1] \notin RgActiveAt(f, k[4])
                ELSE /\ k[1] \in RgActiveAt(f, k[4])
                     /\ rgEntityRegions[k] = ConcatIds(SortedSeq(RgActiveAt(f, k[4])))

\* C18 happens: a finished file has a record of two labels under one of them
\* and an empty record under a label that ended.
C18_Witness ==
    \E f \in RgFiles :
        /\ RgFinished(f)
        /\ \E k \in RgEntityKeys(f) : Len(RgIdsAt(rgEntityRegions, k)) = 2
        /\ \E k \in RgEntityKeys(f) : rgEntityRegions[k] = <<>>

\* The part of a tree whose keys satisfy P: restriction to a key set.
Restrict(tree, keys) == [k \in (DOMAIN tree) \cap keys |-> tree[k]]

\* The index records whose key carries the file.
RgIndexOf(f) ==
    [regions |-> Restrict(rgRegions, {k \in DOMAIN rgRegions : k[1] = f}),
     entity_regions |-> Restrict(rgEntityRegions,
                                 {k \in DOMAIN rgEntityRegions : k[2] = f})]

\* The marker records of the file that its finish_file call has read so far:
\* none before the call, those up to the last key read while it runs, all of
\* them once it has returned.
RgReadBy(f) ==
    Restrict(rgMarkers,
             {k \in DOMAIN rgMarkers :
                 /\ k[1] = f
                 /\ \/ fin[f].pc = "done"
                    \/ /\ fin[f].pc = "running"
                       /\ fin[f].last # NoKey
                       /\ (k = fin[f].last \/ LexLess(k, fin[f].last))})

\* finish_file(f) run on its own, from empty indexes, on a tree that holds
\* nothing but the given records.
RgAlone(tree, f) ==
    {[regions |-> r.regions, entity_regions |-> r.entity_regions] :
        r \in Regions_finish_file(EmptyMap, EmptyMap, tree, f, DefaultInstance,
                                  RgIds)}

\* C19: scope isolation.  While finish_file calls of distinct files run with
\* their loop turns interleaved in any way, the index records that carry a
\* file are at every moment those that finish_file of that file, run alone on
\* the file's own marker records read so far, would have written: a call
\* reads only its file's records, writes only keys that carry its file, and
\* the index left by any interleaving is the one left by running the calls
\* one after the other.
C19_ScopeIsolation ==
    \A f \in RgFiles : RgAlone(RgReadBy(f), f) = {RgIndexOf(f)}

\* C19 happens: the calls of two files are both in the middle of their loops,
\* each has written a record, and the files hold marks of one label at one
\* offset.
C19_Witness ==
    /\ \A f \in RgFiles : fin[f].pc = "running" /\ fin[f].last # NoKey
    /\ \A f \in RgFiles : RgIndexOf(f).regions # EmptyMap
    /\ \E m \in BagToSet(rgDone), n \in BagToSet(rgDone) :
          m[1] # n[1] /\ m[2] = n[2] /\ m[4] = n[4]

\* C24: an unfinalized scope has no index records.  Regions::insert writes
\* the markers tree only, so for a file on which finish_file has never been
\* called neither regions nor entity_regions holds a record that carries the
\* file, whatever inserts have been made and whatever other files have been
\* finalized.
C24_UnfinalizedHasNoIndex ==
    \A f \in RgFiles :
        fin[f].pc = "idle" =>
            RgIndexOf(f) = [regions |-> EmptyMap, entity_regions |-> EmptyMap]

\* C24 happens: a file with a returned insert call has never been finalized,
\* while another file has been and has index records.
C24_Witness ==
    \E f \in RgFiles, g \in RgFiles :
        /\ fin[f].pc = "idle"
        /\ \E m \in BagToSet(rgDone) : m[1] = f
        /\ fin[g].pc = "done"
        /\ RgIndexOf(g).entity_regions # EmptyMap

\* The boundary offsets of the file that its finish_file call has gone
\* through: the offsets of the marker records read so far.
RgProcessed(f) == {k[3] : k \in DOMAIN RgReadBy(f)}

\* The label is active just before the offset: a started mark of the file
\* with the label covers the byte before it.
RgActiveBefore(f, o) == IF o = 0 THEN {} ELSE RgActiveAt(f, o - 1)

\* No insert call of the file is between its two merges.
RgNonePending(f) == \A m \in BagToSet(rgPending) : m[1] # f

\* C27: region-complete terminator.  While finish_file goes through the
\* records of a file whose insert calls have all returned, at each boundary
\* offset o it has processed, every label active just before o and covered
\* by no mark at o has the empty list under (label, file, instance, o) in
\* entity_regions, and a label neither active before o nor active at o has
\* no record there.
C27_Terminator ==
    \A f \in RgFiles :
        (fin[f].pc \in {"running", "done"} /\ RgNonePending(f)) =>
            \A o \in RgProcessed(f), id \in RgIds :
                LET k == join4(id, f, DefaultInstance, o)
                IN /\ (id \in RgActiveBefore(f, o) /\ id \notin RgActiveAt(f, o)) =>
                         (k \in DOMAIN rgEntityRegions /\ rgEntityRegions[k] = <<>>)
                   /\ (id \notin RgActiveBefore(f, o) /\ id \notin RgActiveAt(f, o)) =>
                         k \notin DOMAIN rgEntityRegions

\* C27 happens: finish_file is in its loop and has just processed an offset
\* where one label ended, which has its empty record, while another label
\* of the file, not active there, has none.
C27_Witness ==
    \E f \in RgFiles, id \in RgIds, other \in RgIds :
        /\ fin[f].pc = "running" /\ fin[f].last # NoKey
        /\ RgNonePending(f)
        /\ LET o == fin[f].last[3]
           IN /\ id \in RgActiveBefore(f, o) /\ id \notin RgActiveAt(f, o)
              /\ rgEntityRegions[join4(id, f, DefaultInstance, o)] = <<>>
              /\ other \notin RgActiveBefore(f, o) \cup RgActiveAt(f, o)
              /\ \E m \in BagToSet(rgDone) : m[1] = f /\ m[4] = other

\* finish_file(f) run once, on its own, on the marker records stored now:
\* the indexes it can leave.
RgOnce(f) ==
    RgAlone(Restrict(rgMarkers, {k \in DOMAIN rgMarkers : k[1] = f}), f)

\* In SpecHeal, where the first finish_file call of a file is an early one:
\* a later call has run after every insert call had returned, and nothing
\* has been merged since.
RgHealed(f) == RgFinished(f) /\ RgNonePending(f)

\* C28 as stated: after an early finish_file call and a second one made when
\* all inserts have returned, the index records of the file equal those of a
\* single finish_file call made after all inserts.
C28_HealsToSame ==
    \A f \in RgFiles : RgHealed(f) => RgOnce(f) = {RgIndexOf(f)}

\* C28, amended: the regions records equal those of a single call, every
\* entity_regions record of a single call is there with the same list, and
\* the only other entity_regions records of the file are empty lists left by
\* the early call.
C28_HealsUpToTerminators ==
    \A f \in RgFiles :
        RgHealed(f) =>
            \A once \in RgOnce(f) :
                /\ RgIndexOf(f).regions = once.regions
                /\ \A k \in DOMAIN once.entity_regions :
                      /\ k \in DOMAIN rgEntityRegions
                      /\ rgEntityRegions[k] = once.entity_regions[k]
                /\ \A k \in RgEntityKeys(f) :
                      k \notin DOMAIN once.entity_regions =>
                          rgEntityRegions[k] = <<>>

\* C28 happens: the second call has returned on a file with two marks, and
\* the index holds a record that a single call would not have written.
C28_Witness ==
    \E f \in RgFiles :
        /\ RgHealed(f)
        /\ BagCardinality(rgDone) = 2
        /\ \E k \in RgEntityKeys(f) :
              \A once \in RgOnce(f) : k \notin DOMAIN once.entity_regions

\* -------------------------------------------- claims on the AnnotationSet

\* The test's loop over the records: with last_count the length of the list
\* before (0 at the start), a record that follows a count of 0 is non-empty.
NoRepeatedEmpty(lists) ==
    \A i \in 1 .. Len(lists) :
        (i = 1 \/ lists[i - 1] = <<>>) => lists[i] # <<>>

\* C20: empty regions neither start nor repeat.  For any list of (id, range)
\* insertions, ranges with start >= end included, the region records written
\* by finish, read in ascending offset order, begin with a non-empty id list,
\* and an empty-list record is never immediately followed by another
\* empty-list record.
C20_EmptyNeitherStartsNorRepeats ==
    anPc = "finished" => NoRepeatedEmpty(Regions_iter(anOut))

\* C20 happens: after two valid insertions and one with an empty range,
\* finish has written four records, the second and the fourth empty.
C20_Witness ==
    /\ anPc = "finished"
    /\ anCalls = [valid |-> 2, empty |-> 1]
    /\ Len(Regions_iter(anOut)) = 4
    /\ Regions_iter(anOut)[2] = <<>>
    /\ Regions_iter(anOut)[4] = <<>>

\* -------------------------------------------------- claims on the Intern

\* C22: interning is injective and stable.  Whatever the interleaving of the
\* intern calls of the threads, two calls with equal values have returned
\* equal Ids and two calls with different values have returned different
\* Ids.
C22_InjectiveAndStable ==
    \A p \in inReturned, q \in inReturned : (p[1] = q[1]) <=> (p[2] = q[2])

\* C29: every returned Id resolves.  Whatever the interleaving of intern and
\* resolve calls, resolve(id) for an id that a completed intern(v) call
\* returned finds an entry and gives a value equal to v.
C29_ReturnedIdResolves ==
    \A r \in inResolved :
        /\ r[2] # "invalid id"
        /\ \A p \in inReturned : p[2] = r[1] => r[2] = p[1]

\* ------------------------------------------------- claims on the coverage

\* The handler's invocations for an entity: the entity callbacks and the
\* region callbacks, by their position in the log.
CvEntityCalls(s) ==
    {i \in 1 .. Len(cvNotify.log) :
        /\ cvNotify.log[i].entity = s
        /\ cvNotify.log[i].kind \in {"on_entity_success", "on_entity_failure"}}
CvRegionCalls(s) ==
    {i \in 1 .. Len(cvNotify.log) :
        /\ cvNotify.log[i].entity = s
        /\ cvNotify.log[i].kind \in {"on_region_success", "on_region_failure"}}

\* notify has visited the subject without error: its entity callback was
\* invoked and returned Ok.
CvVisited(s) ==
    /\ cvNotify.called
    /\ \E i \in CvEntityCalls(s) :
          ~(cvNotify.result = "Err" /\ i = Len(cvNotify.log))

\* The region holds an entity other than the subject that carries the target
\* attribute.
CvHasTarget(s, entities) ==
    \E i \in 1 .. Len(entities) : entities[i] # s /\ entities[i] \in cvTargets

\* C30: coverage classification.  For each subject that notify visits without
\* error there is exactly one entity callback, after all region callbacks of
\* the subject, and it is on_entity_success exactly when there is a region
\* callback of the subject and each one is on_region_success.  When nothing
\* is written to the database while notify runs, every region of the subject
\* has been reported once, through on_region_success when it holds another
\* entity with the target attribute and through on_region_failure otherwise,
\* so that the entity callback is on_entity_success exactly when the subject
\* has at least one region and every region holds such an entity; and a call
\* that returns Ok has visited every subject.
C30_Classification ==
    /\ \A s \in CvEntities :
          CvVisited(s) =>
              /\ Cardinality(CvEntityCalls(s)) = 1
              /\ \A i \in CvRegionCalls(s), e \in CvEntityCalls(s) : i < e
              /\ \A e \in CvEntityCalls(s) :
                    (cvNotify.log[e].kind = "on_entity_success")
                       <=> /\ CvRegionCalls(s) # {}
                           /\ \A i \in CvRegionCalls(s) :
                                 cvNotify.log[i].kind = "on_region_success"
    /\ \A s \in CvEntities :
          (CvVisited(s) /\ cvNotify.clean) =>
              /\ s \in cvSubjects
              /\ Cardinality(CvRegionCalls(s)) = Len(cvRegions[s])
              /\ {cvNotify.log[i].region : i \in CvRegionCalls(s)}
                    = 1 .. Len(cvRegions[s])
              /\ \A i \in CvRegionCalls(s) :
                    cvNotify.log[i].kind
                       = IF CvHasTarget(s, cvRegions[s][cvNotify.log[i].region])
                         THEN "on_region_success"
                         ELSE "on_region_failure"
              /\ \A e \in CvEntityCalls(s) :
                    (cvNotify.log[e].kind = "on_entity_success")
                       <=> /\ Len(cvRegions[s]) >= 1
                           /\ \A j \in 1 .. Len(cvRegions[s]) :
                                 CvHasTarget(s, cvRegions[s][j])
    /\ (cvNotify.called /\ cvNotify.clean /\ cvNotify.result = "Ok") =>
          \A s \in cvSubjects : CvVisited(s)

\* C30 happens: notify has returned Ok, with no write meanwhile, on a subject
\* with two regions, the first with another entity that carries the target
\* attribute and the second without one; they were reported through
\* on_region_success and on_region_failure, and the subject through
\* on_entity_failure.
C30_Witness ==
    /\ cvNotify.called /\ cvNotify.clean /\ cvNotify.result = "Ok"
    /\ \E s \in cvSubjects :
          /\ Len(cvRegions[s]) = 2
          /\ CvHasTarget(s, cvRegions[s][1])
          /\ ~CvHasTarget(s, cvRegions[s][2])
          /\ \E i \in CvRegionCalls(s) :
                cvNotify.log[i].kind = "on_region_success"
          /\ \E e \in CvEntityCalls(s) :
                cvNotify.log[e].kind = "on_entity_failure"

====
